---- MODULE Spec2Model ----
(***************************************************************************)
(* A model of the nous page store (nous_ai/page_storage.py): the content   *)
(* hasher, the block diff engine, the oplog writer and the page store's    *)
(* create_page / update_page, run by two writer processes over one shared  *)
(* directory.                                                              *)
(*                                                                         *)
(* JSON values are tagged tuples.  A Python dict keeps its insertion       *)
(* order, so a dict is a sequence of <<key, value>> pairs; Python's ==     *)
(* on dicts ignores that order (PyEq) while json.dumps follows it (Dumps). *)
(***************************************************************************)
EXTENDS Integers, Sequences, FiniteSets, TLC

VARIABLES
    pageFile,   \* pageFile[p]: what is at pages/<p>.json
    tmpFile,    \* tmpFile[p]:  what is at pages/<p>.json.tmp
    oplog,      \* oplog[p]:    the lines of pages/<p>.oplog (<<>> when missing)
    pc,         \* pc[w]:       where writer w is in its call
    arg,        \* arg[w]:      the arguments of w's current call
    loc,        \* loc[w]:      the local variables of w's current call
    fd,         \* fd[w]:       where the inode w has open for writing now lives
    outcome,    \* outcome[w]:  how w's last call ended
    hist,       \* hist[w]:     what w's current/last call did (history)
    lastRename, \* lastRename[p]: the writer whose rename onto p's page file came last (history)
    calls,      \* number of calls started so far
    fnIn,       \* the inputs of the pure function under check
    fnOut,      \* its result
    dbFile,     \* dbFile[p]:  what is at files/<p>.database
    folders     \* folders.json: missing, unreadable, or the list of the folders

storeVars == <<pageFile, tmpFile, oplog, pc, arg, loc, fd, outcome, hist, lastRename, calls>>
fnVars == <<fnIn, fnOut>>
toolVars == <<dbFile, folders>>
vars == <<pageFile, tmpFile, oplog, pc, arg, loc, fd, outcome, hist, lastRename, calls,
          fnIn, fnOut, dbFile, folders>>

(***************************************************************************)
(* Bounds of the model.                                                    *)
(***************************************************************************)
MaxCalls == 3       \* calls started in one behaviour of the store
MaxBlocks == 3      \* longest block sequence given to _diff_blocks
MaxItems == 3       \* longest candidate list given to _resolve_name
MaxScan == 3        \* most page files in the directory search_pages or list_pages scans
MaxLines == 4       \* most lines of an oplog file that holds malformed lines

(***************************************************************************)
(* JSON values.                                                            *)
(***************************************************************************)
None == <<"None">>
Bool(b) == <<"bool", b>>
Str(s) == <<"str", s>>
Num(n) == <<"num", n>>
List(items) == <<"list", items>>
Dict(pairs) == <<"dict", pairs>>

Kind(v) == v[1]
Items(v) == v[2]

Keys(d) == {Items(d)[i][1] : i \in 1..Len(Items(d))}
HasKey(d, k) == k \in Keys(d)

\* d[k] of a dict that has the key k
Lookup(d, k) == Items(d)[CHOOSE i \in 1..Len(Items(d)) : Items(d)[i][1] = k][2]

\* d.get(k)
Get(d, k) == IF HasKey(d, k) THEN Lookup(d, k) ELSE None

\* d.get(k, default)
GetOr(d, k, default) == IF HasKey(d, k) THEN Lookup(d, k) ELSE default

\* Python's == on JSON values: dicts compare as mappings, lists by position.
RECURSIVE PyEq(_, _)
PyEq(a, b) ==
    IF Kind(a) # Kind(b) THEN FALSE
    ELSE IF Kind(a) = "dict"
         THEN /\ Keys(a) = Keys(b)
              /\ Len(Items(a)) = Len(Items(b))
              /\ \A k \in Keys(a) : PyEq(Lookup(a, k), Lookup(b, k))
    ELSE IF Kind(a) = "list"
         THEN /\ Len(Items(a)) = Len(Items(b))
              /\ \A i \in 1..Len(Items(a)) : PyEq(Items(a)[i], Items(b)[i])
    ELSE a = b

(***************************************************************************)
(* json.dumps(v, separators=(",", ":")): the text as a sequence of tokens. *)
(* A dict is written in its insertion order; there is no sort_keys.        *)
(***************************************************************************)
RECURSIVE Dumps(_)
RECURSIVE DumpPairs(_, _)
RECURSIVE DumpItems(_, _)
DumpPairs(pairs, i) ==
    IF i > Len(pairs) THEN <<>>
    ELSE (IF i > 1 THEN << <<",">> >> ELSE <<>>)
         \o << <<"key", pairs[i][1]>>, <<":">> >>
         \o Dumps(pairs[i][2])
         \o DumpPairs(pairs, i + 1)
DumpItems(items, i) ==
    IF i > Len(items) THEN <<>>
    ELSE (IF i > 1 THEN << <<",">> >> ELSE <<>>)
         \o Dumps(items[i])
         \o DumpItems(items, i + 1)
Dumps(v) ==
    IF Kind(v) = "dict" THEN << <<"{">> >> \o DumpPairs(Items(v), 1) \o << <<"}">> >>
    ELSE IF Kind(v) = "list" THEN << <<"[">> >> \o DumpItems(Items(v), 1) \o << <<"]">> >>
    ELSE << v >>

\* hashlib.sha256(raw).hexdigest(): SHA-256 is taken to be collision free, so
\* the digest of a text stands for that text and for no other.
Sha256Hex(raw) == raw

\* _content_hash
_content_hash(content) == <<"sha256:", Sha256Hex(Dumps(content))>>

(***************************************************************************)
(* _diff_blocks.  A change is the dict the code builds: insert and move    *)
(* carry afterBlockId (None for the first block), modify and delete have   *)
(* no such key.                                                            *)
(***************************************************************************)
OpInsert == Str("insert")
OpModify == Str("modify")
OpMove == Str("move")
OpDelete == Str("delete")

\* b["id"] raises KeyError for a block without that key
DiffRaises(old_blocks, new_blocks) ==
    \/ \E i \in 1..Len(old_blocks) : ~HasKey(old_blocks[i], "id")
    \/ \E i \in 1..Len(new_blocks) : ~HasKey(new_blocks[i], "id")

\* old_map / new_map membership: the ids that occur in a block list
IdsOf(blocks) == {Lookup(blocks[i], "id") : i \in 1..Len(blocks)}

\* old_map[bid][0]: a later block with the same id overwrites an earlier one
MapIndex(blocks, bid) ==
    CHOOSE i \in 1..Len(blocks) :
        /\ Lookup(blocks[i], "id") = bid
        /\ \A j \in 1..Len(blocks) : Lookup(blocks[j], "id") = bid => j <= i

\* The position tested before the content: a block both modified and moved is a move.
NewBlockChangeMoveFirst(old_blocks, new_blocks, i) ==
    LET block == new_blocks[i]
        after_id == IF i > 1 THEN Lookup(new_blocks[i - 1], "id") ELSE None
        bid == Lookup(block, "id")
    IN  IF bid \notin IdsOf(old_blocks)
        THEN << [blockId |-> bid, op |-> OpInsert,
                 blockType |-> Get(block, "type"), afterBlockId |-> after_id] >>
        ELSE LET old_idx == MapIndex(old_blocks, bid)
                 old_block == old_blocks[old_idx]
             IN  IF old_idx # i
                 THEN << [blockId |-> bid, op |-> OpMove,
                          blockType |-> Get(block, "type"), afterBlockId |-> after_id] >>
                 ELSE IF \/ ~PyEq(Get(old_block, "data"), Get(block, "data"))
                         \/ ~PyEq(Get(old_block, "type"), Get(block, "type"))
                 THEN << [blockId |-> bid, op |-> OpModify,
                          blockType |-> Get(block, "type")] >>
                 ELSE <<>>

\* A block whose data changed recorded as a new block.
NewBlockChangeReinserts(old_blocks, new_blocks, i) ==
    LET block == new_blocks[i]
        after_id == IF i > 1 THEN Lookup(new_blocks[i - 1], "id") ELSE None
        bid == Lookup(block, "id")
    IN  IF \/ bid \notin IdsOf(old_blocks)
           \/ ~PyEq(Get(old_blocks[MapIndex(old_blocks, bid)], "data"), Get(block, "data"))
        THEN << [blockId |-> bid, op |-> OpInsert,
                 blockType |-> Get(block, "type"), afterBlockId |-> after_id] >>
        ELSE IF MapIndex(old_blocks, bid) # i
        THEN << [blockId |-> bid, op |-> OpMove,
                 blockType |-> Get(block, "type"), afterBlockId |-> after_id] >>
        ELSE <<>>

\* the changes the first loop appends for new_blocks[i]
NewBlockChange(old_blocks, new_blocks, i) ==
    LET block == new_blocks[i]
        after_id == IF i > 1 THEN Lookup(new_blocks[i - 1], "id") ELSE None
        bid == Lookup(block, "id")
    IN  IF bid \notin IdsOf(old_blocks)
        THEN << [blockId |-> bid, op |-> OpInsert,
                 blockType |-> Get(block, "type"), afterBlockId |-> after_id] >>
        ELSE LET old_idx == MapIndex(old_blocks, bid)
                 old_block == old_blocks[old_idx]
             IN  IF \/ ~PyEq(Get(old_block, "data"), Get(block, "data"))
                    \/ ~PyEq(Get(old_block, "type"), Get(block, "type"))
                 THEN << [blockId |-> bid, op |-> OpModify,
                          blockType |-> Get(block, "type")] >>
                 ELSE IF old_idx # i
                 THEN << [blockId |-> bid, op |-> OpMove,
                          blockType |-> Get(block, "type"), afterBlockId |-> after_id] >>
                 ELSE <<>>

RECURSIVE NewLoop(_, _, _)
NewLoop(old_blocks, new_blocks, i) ==
    IF i > Len(new_blocks) THEN <<>>
    ELSE NewBlockChange(old_blocks, new_blocks, i) \o NewLoop(old_blocks, new_blocks, i + 1)

RECURSIVE OldLoop(_, _, _)
OldLoop(old_blocks, new_blocks, i) ==
    IF i > Len(old_blocks) THEN <<>>
    ELSE (IF Lookup(old_blocks[i], "id") \notin IdsOf(new_blocks)
          THEN << [blockId |-> Lookup(old_blocks[i], "id"), op |-> OpDelete,
                   blockType |-> Get(old_blocks[i], "type")] >>
          ELSE <<>>)
         \o OldLoop(old_blocks, new_blocks, i + 1)

\* The deletes emitted before the changes of the new blocks.
DiffDeletesFirst(old_blocks, new_blocks) ==
    OldLoop(old_blocks, new_blocks, 1) \o NewLoop(old_blocks, new_blocks, 1)

\* defined when DiffRaises(old_blocks, new_blocks) is false
_diff_blocks(old_blocks, new_blocks) ==
    NewLoop(old_blocks, new_blocks, 1) \o OldLoop(old_blocks, new_blocks, 1)

(***************************************************************************)
(* Inputs of the pure functions.                                           *)
(***************************************************************************)
BlockIds == {"a", "b", "c"}

\* A block with the keys in the order id, type, data.
Block(id, type, text) ==
    Dict(<< <<"id", Str(id)>>, <<"type", Str(type)>>,
            <<"data", Dict(<< <<"text", Str(text)>> >>)>> >>)

\* The same block built with its keys in the order data, type, id.
BlockRev(id, type, text) ==
    Dict(<< <<"data", Dict(<< <<"text", Str(text)>> >>)>>,
            <<"type", Str(type)>>, <<"id", Str(id)>> >>)

\* A block without the key id.
BlockNoId(type, text) ==
    Dict(<< <<"type", Str(type)>>, <<"data", Dict(<< <<"text", Str(text)>> >>)>> >>)

OldBlocks == {Block(id, "paragraph", "x") : id \in BlockIds}
\* A block without the key type.
BlockNoType(id, text) ==
    Dict(<< <<"id", Str(id)>>, <<"data", Dict(<< <<"text", Str(text)>> >>)>> >>)

\* The new blocks: unchanged, data changed, type changed, type missing.
NewBlocks == {Block(id, "paragraph", "x") : id \in BlockIds}
             \cup {Block("a", "header", "x"), Block("b", "paragraph", "y"),
                   BlockNoType("c", "x")}

SeqsUpTo(S, n) == UNION {[1..k -> S] : k \in 0..n}

Perms(S) == {f \in [1..Cardinality(S) -> S] : \A i, j \in DOMAIN f : i # j => f[i] # f[j]}

ContentKeys == {"time", "version", "blocks"}

\* A content dict with its keys inserted in the given order.
ContentValue(k, t, blocks) ==
    IF k = "time" THEN Num(t)
    ELSE IF k = "version" THEN Str("2.28.0")
    ELSE List(blocks)
ContentInOrder(order, t, blocks) ==
    Dict([i \in 1..Len(order) |-> <<order[i], ContentValue(order[i], t, blocks)>>])

Times == {1, 2}
HashBlockLists == {<<>>, <<Block("a", "paragraph", "x")>>, <<BlockRev("a", "paragraph", "x")>>}
HashContents ==
    {ContentInOrder(order, t, blocks) :
        order \in Perms(ContentKeys), t \in Times, blocks \in HashBlockLists}

(***************************************************************************)
(* The store: one notebook directory shared by the writer processes.       *)
(***************************************************************************)
Pages == {"p1", "p2"}
Writers == {"w1", "w2"}

\* What a path holds.  Empty is a file just created or truncated by open(.., "w");
\* Partial is a file holding bytes that are not one complete document.
Absent == <<"absent">>
Empty == <<"empty">>
Partial == <<"partial">>
Doc(page) == <<"doc", page>>
IsDoc(f) == f[1] = "doc"

\* page[k] = v on a dict: in place when the key exists, else added at the end
SetKey(d, k, v) ==
    IF HasKey(d, k)
    THEN Dict([i \in 1..Len(Items(d)) |->
                  IF Items(d)[i][1] = k THEN <<k, v>> ELSE Items(d)[i]])
    ELSE Dict(Append(Items(d), <<k, v>>))

\* The content create_page builds.
NewContent(t, blocks) == ContentInOrder(<<"time", "version", "blocks">>, t, blocks)

\* The one notebook of the model.
Notebook == "nb"

\* The page dict create_page builds (the fields the model follows); now is
\* what _now_iso() reads.
NewPage(pid, title, content, tags, now) ==
    Dict(<< <<"id", Str(pid)>>, <<"notebookId", Str(Notebook)>>, <<"title", title>>,
            <<"content", content>>,
            <<"tags", IF tags = None THEN List(<<>>) ELSE tags>>,
            <<"isArchived", Bool(FALSE)>>,
            <<"createdAt", Num(now)>>, <<"updatedAt", Num(now)>> >>)

\* if extra_fields: None and the empty dict are false
Truthy(v) == v # None /\ ~(Kind(v) = "dict" /\ Items(v) = <<>>)

\* page.update(extra_fields): every key of e set in d, in e's order
RECURSIVE DictUpdateFrom(_, _, _)
DictUpdateFrom(d, e, i) ==
    IF i > Len(Items(e)) THEN d
    ELSE DictUpdateFrom(SetKey(d, Items(e)[i][1], Items(e)[i][2]), e, i + 1)
DictUpdate(d, e) == DictUpdateFrom(d, e, 1)

\* The in-memory page update_page writes back.
UpdatedPage(page, a) ==
    LET withTitle == IF a.title # None THEN SetKey(page, "title", a.title) ELSE page
        withContent == IF a.content # None
                       THEN SetKey(withTitle, "content", a.content) ELSE withTitle
        withTags == IF a.tags # None THEN SetKey(withContent, "tags", a.tags) ELSE withContent
        withExtra == IF Truthy(a.extra) THEN DictUpdate(withTags, a.extra) ELSE withTags
    IN  SetKey(withExtra, "updatedAt", Num(a.now))

\* content.get("blocks", [])
BlocksOf(content) == Items(GetOr(content, "blocks", List(<<>>)))

(***************************************************************************)
(* The oplog.                                                              *)
(***************************************************************************)
Genesis == <<"genesis">>

\* A line of the file is an entry, or one of: an empty line, a line json.loads
\* rejects, and the same as the last line of a file that does not end in "\n"
\* (what a write cut short leaves).  An entry whose "\n" was not written
\* carries the field open.
Blank == [blank |-> TRUE]
Junk == [junk |-> TRUE]
Torn == [junk |-> TRUE, open |-> TRUE]
Unterminated(line) == "open" \in DOMAIN line
IsBlank(line) == "blank" \in DOMAIN line
\* json.loads(line) raises JSONDecodeError
DecodeFails(line) == "junk" \in DOMAIN line
\* json.loads(line)
Loads(line) == [k \in DOMAIN line \ {"open"} |-> line[k]]

RECURSIVE LastHashFrom(_, _, _)
LastHashFrom(lines, i, last_hash) ==
    IF i > Len(lines) THEN last_hash
    ELSE LastHashFrom(lines, i + 1,
             IF IsBlank(lines[i]) \/ DecodeFails(lines[i]) THEN last_hash
             ELSE IF "contentHash" \in DOMAIN lines[i] THEN lines[i].contentHash
             ELSE last_hash)

\* read_oplog
RECURSIVE ReadOplogFrom(_, _)
ReadOplogFrom(lines, i) ==
    IF i > Len(lines) THEN <<>>
    ELSE (IF IsBlank(lines[i]) \/ DecodeFails(lines[i]) THEN <<>> ELSE <<Loads(lines[i])>>)
         \o ReadOplogFrom(lines, i + 1)
read_oplog(lines) == ReadOplogFrom(lines, 1)

\* A reader that stops at the first entry instead of keeping the last.
ReadFirstHash(lines) ==
    IF lines # <<>> /\ "contentHash" \in DOMAIN lines[1] THEN lines[1].contentHash
    ELSE Genesis

\* A reader that gives up at a line it cannot use: the hash of the last line
\* if that is an entry, else "genesis".
ReadLastLineHash(lines) ==
    IF lines # <<>> /\ "contentHash" \in DOMAIN lines[Len(lines)]
    THEN lines[Len(lines)].contentHash ELSE Genesis

_read_last_hash(lines) == LastHashFrom(lines, 1, Genesis)

\* {k: v for k, v in c.items() if v is not None}
StripNone(c) == [k \in {x \in DOMAIN c : c[x] # None} |-> c[k]]

\* The entry _append_oplog builds (ts left out).
OplogEntry(client, op, content, prev_hash, block_changes) ==
    [clientId |-> client,
     op |-> op,
     contentHash |-> _content_hash(content),
     prevHash |-> prev_hash,
     blockChanges |-> [i \in 1..Len(block_changes) |-> StripNone(block_changes[i])],
     blockCount |-> Len(BlocksOf(content))]

\* The file opened with "w" instead of "a": the old lines are gone.
RewriteLines(lines, entry) == <<entry>>

\* open(path, "a") and one write of the line: after a last line without "\n"
\* the bytes continue that line, which json.loads then rejects
AppendLine(lines, entry) ==
    IF lines # <<>> /\ Unterminated(lines[Len(lines)])
    THEN [lines EXCEPT ![Len(lines)] = Junk]
    ELSE Append(lines, entry)

\* the same write cut short: a prefix of the line, at most all but its "\n"
CutLine(lines, piece) ==
    IF lines # <<>> /\ Unterminated(lines[Len(lines)])
    THEN [lines EXCEPT ![Len(lines)] = Torn]
    ELSE Append(lines, piece)

\* The block changes create_page records: every block an insert.
CreateRaises(blocks) == \E i \in 1..Len(blocks) : ~HasKey(blocks[i], "id")
\* The guard `if i > 0` left out: blocks[-1] is the last block.
CreateChangesWrapAround(blocks) ==
    [i \in 1..Len(blocks) |->
        [blockId |-> Lookup(blocks[i], "id"), op |-> OpInsert,
         blockType |-> Get(blocks[i], "type"),
         afterBlockId |-> Lookup(blocks[IF i > 1 THEN i - 1 ELSE Len(blocks)], "id")]]

CreateChanges(blocks) ==
    [i \in 1..Len(blocks) |->
        [blockId |-> Lookup(blocks[i], "id"), op |-> OpInsert,
         blockType |-> Get(blocks[i], "type"),
         afterBlockId |-> IF i > 1 THEN Lookup(blocks[i - 1], "id") ELSE None]]

(***************************************************************************)
(* Inputs of the store's calls.                                            *)
(***************************************************************************)
BlockA == Block("a", "paragraph", "x")
BlockB == Block("b", "paragraph", "x")
BlockC == Block("c", "paragraph", "x")

\* what the clock reads when create_page builds the content
CreateTimes == {1}
UpdateContents == {NewContent(2, <<BlockA, BlockB>>), NewContent(2, <<BlockA, BlockC>>),
                   NewContent(2, <<BlockNoId("paragraph", "x")>>)}

\* The calls two concurrent writers make.
CreateBlockLists == {<<BlockA>>}
UpdateInputs ==
    {[content |-> c, title |-> None, tags |-> None, extra |-> None, now |-> 2] :
        c \in UpdateContents}

\* The calls made one at a time: also a block without an id given to
\* create_page, and an update of the title alone.
SeqCreateBlockLists == CreateBlockLists \cup {<<BlockNoId("paragraph", "x")>>}
SeqUpdateInputs ==
    UpdateInputs \cup {[content |-> None, title |-> Str("t2"), tags |-> None,
                        extra |-> None, now |-> 2]}

\* The calls of the one-writer runs, on page p1: create_page with no, one and
\* three blocks; update_page with the content create_page stored for one
\* block, that content with its keys in another order, a longer content, the
\* title alone, the tags alone (manage_tags), no field at all
\* (add_database_rows), and extra_fields alone: a folder (move_page), an id,
\* a content.
OneCreateBlockLists == {<<>>, <<BlockA>>, <<BlockA, BlockB, BlockC>>}
NoFields == [content |-> None, title |-> None, tags |-> None, extra |-> None, now |-> 2]
OneUpdateInputs ==
    {[NoFields EXCEPT !.content = c] :
        c \in {NewContent(1, <<BlockA>>),
               ContentInOrder(<<"version", "time", "blocks">>, 1, <<BlockA>>),
               NewContent(2, <<BlockA, BlockB>>)}}
    \cup {[NoFields EXCEPT !.title = Str("t2")],
          [NoFields EXCEPT !.tags = List(<<Str("x")>>)],
          NoFields}
    \cup {[NoFields EXCEPT !.extra = Dict(<< <<k, v>> >>)] :
            <<k, v>> \in {<<"folderId", Str("f1")>>, <<"id", Str("other")>>,
                          <<"content", NewContent(2, <<BlockB>>)>>}}

NoCall == [op |-> "none", page |-> "none", title |-> None, blocks |-> <<>>,
           content |-> None, tags |-> None, extra |-> None]
NoLocals == [page |-> None, old_content |-> None, block_changes |-> <<>>,
             prev_hash |-> None]
NoHist == [page |-> "none", renamed |-> FALSE, appended |-> FALSE]

TmpPath(w) == tmpFile[arg[w].page]
Idle(w) == pc[w] = "idle"

(***************************************************************************)
(* Initial states.                                                         *)
(***************************************************************************)
InitFiles ==
    /\ pageFile = [p \in Pages |-> Absent]
    /\ tmpFile = [p \in Pages |-> Absent]
    /\ oplog = [p \in Pages |-> <<>>]
    /\ pc = [w \in Writers |-> "idle"]
    /\ arg = [w \in Writers |-> NoCall]
    /\ loc = [w \in Writers |-> NoLocals]
    /\ fd = [w \in Writers |-> "closed"]
    /\ outcome = [w \in Writers |-> "none"]
    /\ hist = [w \in Writers |-> NoHist]
    /\ lastRename = [p \in Pages |-> "none"]
    /\ calls = 0
    /\ dbFile = [p \in Pages |-> Absent]

\* the store of a notebook without folders
InitStore ==
    /\ InitFiles
    /\ folders = Absent

NotRun == [done |-> FALSE, val |-> <<>>]

Init ==
    /\ InitStore
    /\ fnIn = [f |-> "none"]
    /\ fnOut = NotRun

(***************************************************************************)
(* create_page and update_page, step by step.                              *)
(***************************************************************************)
\* How a call ends: its arguments and locals go, its history stays.
EndCall(w, how) ==
    /\ pc' = [pc EXCEPT ![w] = "idle"]
    /\ arg' = [arg EXCEPT ![w] = NoCall]
    /\ outcome' = [outcome EXCEPT ![w] = how]
    /\ loc' = [loc EXCEPT ![w] = NoLocals]
    /\ fd' = [fd EXCEPT ![w] = "closed"]

\* create_page up to the point where the page dict is built and pages/ exists
CreateBeginOn(w, pages, blockLists) ==
    /\ Idle(w)
    /\ calls < MaxCalls
    /\ \E p \in pages, blocks \in blockLists, t \in CreateTimes :
          /\ hist' = [hist EXCEPT ![w] = [NoHist EXCEPT !.page = p]]
          /\ arg' = [arg EXCEPT ![w] = [op |-> "create", page |-> p, title |-> Str("t1"),
                                        blocks |-> blocks, content |-> None, tags |-> None,
                                        extra |-> None]]
          /\ loc' = [loc EXCEPT ![w] = [NoLocals EXCEPT
                        !.page = NewPage(p, Str("t1"), NewContent(t, blocks), None, t)]]
    /\ pc' = [pc EXCEPT ![w] = "open"]
    /\ outcome' = [outcome EXCEPT ![w] = "none"]
    /\ calls' = calls + 1
    /\ UNCHANGED <<pageFile, tmpFile, oplog, fd, lastRename, fnVars, toolVars>>

\* The temporary file opened before the page is looked for.
UpdateNotFoundLeavesTmp(w) ==
    /\ Idle(w)
    /\ calls < MaxCalls
    /\ \E p \in Pages :
          /\ pageFile[p] = Absent
          /\ hist' = [hist EXCEPT ![w] = [NoHist EXCEPT !.page = p]]
          /\ tmpFile' = [tmpFile EXCEPT ![p] = Empty]
    /\ outcome' = [outcome EXCEPT ![w] = "FileNotFoundError"]
    /\ calls' = calls + 1
    /\ UNCHANGED <<pageFile, oplog, pc, arg, loc, fd, lastRename, fnVars, toolVars>>

\* update_page: read_page finds no file
UpdateNotFound(w) ==
    /\ Idle(w)
    /\ calls < MaxCalls
    /\ \E p \in Pages :
          /\ pageFile[p] = Absent
          /\ hist' = [hist EXCEPT ![w] = [NoHist EXCEPT !.page = p]]
    /\ outcome' = [outcome EXCEPT ![w] = "FileNotFoundError"]
    /\ calls' = calls + 1
    /\ UNCHANGED <<pageFile, tmpFile, oplog, pc, arg, loc, fd, lastRename, fnVars, toolVars>>

\* update_page: read_page finds a file json.loads cannot parse
UpdateUnreadable(w) ==
    /\ Idle(w)
    /\ calls < MaxCalls
    /\ \E p \in Pages :
          /\ pageFile[p] \in {Empty, Partial}
          /\ hist' = [hist EXCEPT ![w] = [NoHist EXCEPT !.page = p]]
    /\ outcome' = [outcome EXCEPT ![w] = "JSONDecodeError"]
    /\ calls' = calls + 1
    /\ UNCHANGED <<pageFile, tmpFile, oplog, pc, arg, loc, fd, lastRename, fnVars, toolVars>>

\* update_page: read_page and the in-memory update
UpdateBeginOn(w, pages, inputs) ==
    /\ Idle(w)
    /\ calls < MaxCalls
    /\ \E p \in pages, a \in inputs :
          /\ IsDoc(pageFile[p])
          /\ hist' = [hist EXCEPT ![w] = [NoHist EXCEPT !.page = p]]
          /\ arg' = [arg EXCEPT ![w] = [op |-> "update", page |-> p, title |-> a.title,
                                        blocks |-> <<>>, content |-> a.content,
                                        tags |-> a.tags, extra |-> a.extra]]
          /\ loc' = [loc EXCEPT ![w] = [NoLocals EXCEPT
                        !.old_content = Lookup(pageFile[p][2], "content"),
                        !.page = UpdatedPage(pageFile[p][2], a)]]
    /\ pc' = [pc EXCEPT ![w] = "open"]
    /\ outcome' = [outcome EXCEPT ![w] = "none"]
    /\ calls' = calls + 1
    /\ UNCHANGED <<pageFile, tmpFile, oplog, fd, lastRename, fnVars, toolVars>>

\* write_text, first half: open(tmp_path, "w") creates or truncates the file
OpenTmp(w) ==
    /\ pc[w] = "open"
    /\ tmpFile' = [tmpFile EXCEPT ![arg[w].page] = Empty]
    /\ fd' = [fd EXCEPT ![w] = "tmp"]
    /\ pc' = [pc EXCEPT ![w] = "write"]
    /\ UNCHANGED <<pageFile, oplog, arg, loc, outcome, hist, calls, lastRename, fnVars, toolVars>>

\* What a write of the document leaves in a file that held `before`: the
\* document when the file was empty; when another writer's bytes are already
\* there, the document or a mix of the two, by their lengths.
Written(before, page) ==
    IF before = Empty THEN {Doc(page)} ELSE {Doc(page), Partial}

\* write_text, second half: the write and the close
WriteTmp(w) ==
    /\ pc[w] = "write"
    /\ LET p == arg[w].page IN
          \/ /\ fd[w] = "tmp"
             /\ \E f \in Written(tmpFile[p], loc[w].page) :
                   tmpFile' = [tmpFile EXCEPT ![p] = f]
             /\ UNCHANGED pageFile
          \/ /\ fd[w] = "page"
             /\ \E f \in Written(pageFile[p], loc[w].page) :
                   pageFile' = [pageFile EXCEPT ![p] = f]
             /\ UNCHANGED tmpFile
          \/ /\ fd[w] = "unlinked"
             /\ UNCHANGED <<pageFile, tmpFile>>
    /\ fd' = [fd EXCEPT ![w] = "closed"]
    /\ pc' = [pc EXCEPT ![w] = "rename"]
    /\ UNCHANGED <<oplog, arg, loc, outcome, hist, calls, lastRename, fnVars, toolVars>>

\* Where the files other writers hold open are after tmp is renamed over page.
AfterRename(w) ==
    [v \in Writers |->
        IF v = w \/ arg[v].page # arg[w].page THEN fd[v]
        ELSE IF fd[v] = "tmp" THEN "page"
        ELSE IF fd[v] = "page" THEN "unlinked"
        ELSE fd[v]]

\* A rename that does not replace an existing destination: the first writer wins.
RenameTmpKeepsOld(w) ==
    /\ pc[w] = "rename"
    /\ TmpPath(w) # Absent
    /\ pageFile' = [pageFile EXCEPT ![arg[w].page] = IF @ = Absent THEN TmpPath(w) ELSE @]
    /\ tmpFile' = [tmpFile EXCEPT ![arg[w].page] = Absent]
    /\ fd' = AfterRename(w)
    /\ hist' = [hist EXCEPT ![w].renamed = TRUE]
    /\ lastRename' = [lastRename EXCEPT ![arg[w].page] = w]
    /\ pc' = [pc EXCEPT ![w] = "changes"]
    /\ UNCHANGED <<oplog, arg, loc, outcome, calls, fnVars, toolVars>>

\* tmp_path.rename(page_path)
RenameTmp(w) ==
    /\ pc[w] = "rename"
    /\ TmpPath(w) # Absent
    /\ pageFile' = [pageFile EXCEPT ![arg[w].page] = TmpPath(w)]
    /\ tmpFile' = [tmpFile EXCEPT ![arg[w].page] = Absent]
    /\ fd' = AfterRename(w)
    /\ hist' = [hist EXCEPT ![w].renamed = TRUE]
    /\ lastRename' = [lastRename EXCEPT ![arg[w].page] = w]
    /\ pc' = [pc EXCEPT ![w] = "changes"]
    /\ UNCHANGED <<oplog, arg, loc, outcome, calls, fnVars, toolVars>>

\* tmp_path.rename(page_path) when another writer has renamed the file away
RenameMissing(w) ==
    /\ pc[w] = "rename"
    /\ TmpPath(w) = Absent
    /\ EndCall(w, "FileNotFoundError")
    /\ UNCHANGED <<pageFile, tmpFile, oplog, hist, calls, lastRename, fnVars, toolVars>>

\* Whether building the block changes raises KeyError.
ChangesRaise(w) ==
    IF arg[w].op = "create" THEN CreateRaises(arg[w].blocks)
    ELSE /\ arg[w].content # None
         /\ DiffRaises(BlocksOf(loc[w].old_content), BlocksOf(arg[w].content))

\* The block changes of the call.
BlockChanges(w) ==
    IF arg[w].op = "create" THEN CreateChanges(arg[w].blocks)
    ELSE IF arg[w].content # None
         THEN _diff_blocks(BlocksOf(loc[w].old_content), BlocksOf(arg[w].content))
         ELSE <<>>

\* a block without an id: block["id"] raises after the rename
ChangesKeyError(w) ==
    /\ pc[w] = "changes"
    /\ ChangesRaise(w)
    /\ EndCall(w, "KeyError")
    /\ UNCHANGED <<pageFile, tmpFile, oplog, hist, calls, lastRename, fnVars, toolVars>>

\* the block changes, then _append_oplog up to its read of the last hash
ReadLastHash(w) ==
    /\ pc[w] = "changes"
    /\ ~ChangesRaise(w)
    /\ loc' = [loc EXCEPT ![w].block_changes = BlockChanges(w),
                          ![w].prev_hash = _read_last_hash(oplog[arg[w].page])]
    /\ pc' = [pc EXCEPT ![w] = "append"]
    /\ UNCHANGED <<pageFile, tmpFile, oplog, arg, fd, outcome, hist, calls, lastRename, fnVars, toolVars>>

\* _append_oplog: the entry and its one write; the call returns
AppendOplog(w) ==
    /\ pc[w] = "append"
    /\ oplog' = [oplog EXCEPT ![arg[w].page] =
            AppendLine(@, OplogEntry(w, IF arg[w].op = "create" THEN Str("create")
                                                                  ELSE Str("modify"),
                                     Lookup(loc[w].page, "content"),
                                     loc[w].prev_hash, loc[w].block_changes))]
    /\ hist' = [hist EXCEPT ![w].appended = TRUE]
    /\ EndCall(w, "returned")
    /\ UNCHANGED <<pageFile, tmpFile, calls, lastRename, fnVars, toolVars>>

\* The process is killed between two steps of a call.
Crash(w) ==
    /\ ~Idle(w)
    /\ EndCall(w, "interrupted")
    /\ UNCHANGED <<pageFile, tmpFile, oplog, hist, calls, lastRename, fnVars, toolVars>>

\* The process is killed inside the write: part of the document is in the file.
CrashInWrite(w) ==
    /\ pc[w] = "write"
    /\ LET p == arg[w].page IN
          \/ /\ fd[w] = "tmp"
             /\ tmpFile' = [tmpFile EXCEPT ![p] = Partial]
             /\ UNCHANGED pageFile
          \/ /\ fd[w] = "page"
             /\ pageFile' = [pageFile EXCEPT ![p] = Partial]
             /\ UNCHANGED tmpFile
    /\ EndCall(w, "interrupted")
    /\ UNCHANGED <<oplog, hist, calls, lastRename, fnVars, toolVars>>

CreateBeginWith(w, blockLists) == CreateBeginOn(w, Pages, blockLists)
UpdateBeginWith(w, inputs) == UpdateBeginOn(w, Pages, inputs)
CreateBegin(w) == CreateBeginWith(w, CreateBlockLists)
UpdateBegin(w) == UpdateBeginWith(w, UpdateInputs)

WriterStep(w) ==
    \/ CreateBegin(w)
    \/ UpdateNotFound(w)
    \/ UpdateUnreadable(w)
    \/ UpdateBegin(w)
    \/ OpenTmp(w)
    \/ WriteTmp(w)
    \/ RenameTmp(w)
    \/ RenameMissing(w)
    \/ ChangesKeyError(w)
    \/ ReadLastHash(w)
    \/ AppendOplog(w)
    \/ Crash(w)
    \/ CrashInWrite(w)

\* Two writer processes, no lock between them.
Next == \E w \in Writers : WriterStep(w)

Spec == Init /\ [][Next]_vars

\* The same calls executed one at a time: a call starts only when no other is
\* in progress.  RenameMissing and UpdateUnreadable need a second writer inside
\* its own call (SeqNeedsNoMore), so they are no steps of a sequential run.
OthersIdle(w) == \A v \in Writers \ {w} : Idle(v)
SeqCreateBegin(w) == OthersIdle(w) /\ CreateBeginWith(w, SeqCreateBlockLists)
SeqUpdateNotFound(w) == OthersIdle(w) /\ UpdateNotFound(w)
SeqUpdateBegin(w) == OthersIdle(w) /\ UpdateBeginWith(w, SeqUpdateInputs)

NextSeq ==
    \E w \in Writers :
        \/ SeqCreateBegin(w)
        \/ SeqUpdateNotFound(w)
        \/ SeqUpdateBegin(w)
        \/ OpenTmp(w)
        \/ WriteTmp(w)
        \/ RenameTmp(w)
        \/ ChangesKeyError(w)
        \/ ReadLastHash(w)
        \/ AppendOplog(w)
        \/ Crash(w)
        \/ CrashInWrite(w)

SpecSeq == Init /\ [][NextSeq]_vars

\* In a sequential run the two left-out actions are never enabled.
SeqNeedsNoMore ==
    /\ \A w \in Writers : pc[w] = "rename" => TmpPath(w) # Absent
    /\ \A p \in Pages : pageFile[p] \notin {Empty, Partial}

\* One writer making its calls one after the other, with the richer inputs:
\* every call on page p1, but for a create_page that puts a second page p2
\* beside it.  No block lacks its id and no second writer is there, so
\* ChangesKeyError, RenameMissing and UpdateUnreadable are no steps of these
\* runs (OneNeedsNoMore).
One == "w1"
OneCreate == CreateBeginOn(One, {"p1"}, OneCreateBlockLists)
OneCreateOther == CreateBeginOn(One, {"p2"}, CreateBlockLists)
OneUpdate == UpdateBeginOn(One, {"p1"}, OneUpdateInputs)

NextOne ==
    \/ OneCreate
    \/ OneCreateOther
    \/ OneUpdate
    \/ UpdateNotFound(One)
    \/ OpenTmp(One)
    \/ WriteTmp(One)
    \/ RenameTmp(One)
    \/ ReadLastHash(One)
    \/ AppendOplog(One)
    \/ Crash(One)
    \/ CrashInWrite(One)

SpecOne == Init /\ [][NextOne]_vars

\* In a one-writer run the three left-out actions are never enabled.
OneNeedsNoMore ==
    /\ pc[One] = "rename" => TmpPath(One) # Absent
    /\ pc[One] = "changes" => ~ChangesRaise(One)
    /\ \A p \in Pages : pageFile[p] \notin {Empty, Partial}

(***************************************************************************)
(* The pure functions, each applied to inputs drawn from a bounded set.    *)
(* The store stays as constructed.                                         *)
(***************************************************************************)
\* _content_hash of two content values built independently
InitHash ==
    /\ InitStore
    /\ fnIn \in {[f |-> "hash", a |-> x, b |-> y] : x \in HashContents, y \in HashContents}
    /\ fnOut = NotRun

CallContentHash ==
    /\ fnIn.f = "hash"
    /\ ~fnOut.done
    /\ fnOut' = [done |-> Len(fnOut.val) = 1,
                 val |-> Append(fnOut.val,
                                _content_hash(IF fnOut.val = <<>> THEN fnIn.a ELSE fnIn.b))]
    /\ UNCHANGED <<fnIn, storeVars, toolVars>>

SpecHash == InitHash /\ [][CallContentHash]_vars

\* _diff_blocks of an old and a new block sequence
InitDiff ==
    /\ InitStore
    /\ fnIn \in {[f |-> "diff", old |-> x, new |-> y] :
                    x \in SeqsUpTo(OldBlocks, MaxBlocks), y \in SeqsUpTo(NewBlocks, MaxBlocks)}
    /\ fnOut = NotRun

CallDiffBlocks ==
    /\ fnIn.f = "diff"
    /\ ~fnOut.done
    /\ ~DiffRaises(fnIn.old, fnIn.new)
    /\ fnOut' = [done |-> TRUE, val |-> _diff_blocks(fnIn.old, fnIn.new)]
    /\ UNCHANGED <<fnIn, storeVars, toolVars>>

SpecDiff == InitDiff /\ [][CallDiffBlocks]_vars

(***************************************************************************)
(* Properties.                                                             *)
(***************************************************************************)
AllIdle == \A w \in Writers : Idle(w)
Last(lines) == lines[Len(lines)]
PageContent(p) == Lookup(pageFile[p][2], "content")
IsPrefix(s, t) == Len(s) <= Len(t) /\ \A i \in 1..Len(s) : s[i] = t[i]

\* The chain check: each prevHash is the predecessor's contentHash, the first is genesis.
ChainOK(lines) ==
    \A i \in 1..Len(lines) :
        lines[i].prevHash = IF i = 1 THEN Genesis ELSE lines[i - 1].contentHash

\* C1: when create_page and update_page calls run one at a time, every page's
\* oplog is a hash chain: entry[0].prevHash is "genesis" and every later
\* entry's prevHash is the contentHash of the entry before it.
C1_ChainIntegrity == \A p \in Pages : ChainOK(oplog[p])

\* A page with three entries whose hashes are not all the same.
C1_Witness ==
    \E p \in Pages :
        /\ AllIdle
        /\ Len(oplog[p]) = 3
        /\ oplog[p][1].contentHash # oplog[p][2].contentHash
        /\ oplog[p][2].contentHash # oplog[p][3].contentHash

\* C2: whenever no operation is in progress, the last oplog entry's
\* contentHash is the hash of the content now in the page file.
C2_HashIsOfStoredContent ==
    \A p \in Pages :
        (AllIdle /\ IsDoc(pageFile[p]) /\ oplog[p] # <<>>)
            => Last(oplog[p]).contentHash = _content_hash(PageContent(p))

\* C3: two content values that are equal as Python values, whatever the order
\* their keys were inserted in, have the same content hash.
C3_KeyOrderIndependent ==
    (fnIn.f = "hash" /\ fnOut.done /\ PyEq(fnIn.a, fnIn.b))
        => fnOut.val[1] = fnOut.val[2]

\* C4: at every instant, with two writers and with crashes, the page file is
\* absent or holds one complete page document.
C4_PageFileNeverPartial ==
    \A p \in Pages : pageFile[p] = Absent \/ IsDoc(pageFile[p])

\* C5: every call that has ended, by returning, raising or being interrupted,
\* either replaced the page file and appended its oplog entry, or did neither.
C5_AllOrNothing ==
    \A w \in Writers : Idle(w) => (hist[w].renamed <=> hist[w].appended)

\* The last entry a writer appended to a page's oplog.
HasEntry(p, w) == \E i \in 1..Len(oplog[p]) : oplog[p][i].clientId = w
EntryIndex(p, w) ==
    CHOOSE i \in 1..Len(oplog[p]) :
        /\ oplog[p][i].clientId = w
        /\ \A j \in 1..Len(oplog[p]) : oplog[p][j].clientId = w => j <= i
EntryOf(p, w) == oplog[p][EntryIndex(p, w)]

\* Both writers' last calls were on page p and both returned.
BothReturnedOn(p) ==
    \A w \in Writers : Idle(w) /\ outcome[w] = "returned" /\ hist[w].page = p

\* C6: with two writers on the same page and no lock, once both calls have
\* returned both entries are in the oplog and the page file holds exactly the
\* content of the writer whose rename came last; C6_LostUpdate is the
\* interleaving in which the chain check passes and the other writer's block
\* changes are in no page file.
C6_LastRenameWins ==
    \A p \in Pages :
        BothReturnedOn(p) =>
            /\ \A w \in Writers : HasEntry(p, w)
            /\ IsDoc(pageFile[p])
            /\ lastRename[p] \in Writers
            /\ _content_hash(PageContent(p)) = EntryOf(p, lastRename[p]).contentHash

\* Both update_page calls had content, the chain check passes, and a block one
\* writer's entry inserted is not in the page file though no entry deletes it.
C6_LostUpdate ==
    \E p \in Pages : \E w \in Writers :
        /\ BothReturnedOn(p)
        /\ ChainOK(oplog[p])
        /\ \A v \in Writers : EntryOf(p, v).op = Str("modify") /\ EntryOf(p, v).blockChanges # <<>>
        /\ w # lastRename[p]
        /\ \E k \in 1..Len(EntryOf(p, w).blockChanges) :
              LET c == EntryOf(p, w).blockChanges[k] IN
              /\ c.op = OpInsert
              /\ c.blockId \notin IdsOf(BlocksOf(PageContent(p)))
              /\ \A i \in 1..Len(oplog[p]) : \A j \in 1..Len(oplog[p][i].blockChanges) :
                    ~(oplog[p][i].blockChanges[j].op = OpDelete
                      /\ oplog[p][i].blockChanges[j].blockId = c.blockId)

\* A call returns in this step.
Returns(w) == ~Idle(w) /\ pc'[w] = "idle" /\ outcome'[w] = "returned"

\* C7: the oplog is append-only.  Every step leaves each page's oplog a prefix
\* of what it becomes and removes no page file; the oplog changes only in the
\* step in which a create_page or update_page call returns, by exactly one
\* line, written once, on that call's page, and on no other page.
C7_AppendOnly ==
    [][/\ \A p \in Pages : IsPrefix(oplog[p], oplog'[p])
       /\ \A p \in Pages : pageFile[p] # Absent => pageFile'[p] # Absent
       /\ \A w \in Writers :
             Returns(w) =>
                 /\ ~hist[w].appended
                 /\ Len(oplog'[arg[w].page]) = Len(oplog[arg[w].page]) + 1
                 /\ \A q \in Pages \ {arg[w].page} : oplog'[q] = oplog[q]
       /\ oplog' # oplog => \E w \in Writers : Returns(w)
      ]_vars

\* Two lines in one page's oplog and a line in the other's.
C7_Witness ==
    \E p, q \in Pages : p # q /\ Len(oplog[p]) >= 2 /\ Len(oplog[q]) >= 1

(***************************************************************************)
(* Properties of _diff_blocks.                                             *)
(***************************************************************************)
IdAt(blocks, i) == Lookup(blocks[i], "id")
UniqueIds(blocks) ==
    \A i, j \in 1..Len(blocks) : i # j => IdAt(blocks, i) # IdAt(blocks, j)
DiffDone == fnIn.f = "diff" /\ fnOut.done

\* The places in the output of the changes, other than deletes, that name an id.
Mentions(out, bid) == {k \in 1..Len(out) : out[k].blockId = bid /\ out[k].op # OpDelete}

\* What the first applicable rule gives for new[i]: the set of changes allowed
\* for it in the output (empty for "no change").
RuleFor(old, new, i) ==
    LET b == new[i]
        after == IF i > 1 THEN IdAt(new, i - 1) ELSE None
    IN  IF \A j \in 1..Len(old) : IdAt(old, j) # IdAt(new, i)
        THEN {[blockId |-> IdAt(new, i), op |-> OpInsert,
               blockType |-> Get(b, "type"), afterBlockId |-> after]}
        ELSE LET j == CHOOSE x \in 1..Len(old) : IdAt(old, x) = IdAt(new, i) IN
             IF Get(old[j], "data") # Get(b, "data") \/ Get(old[j], "type") # Get(b, "type")
             THEN {[blockId |-> IdAt(new, i), op |-> OpModify, blockType |-> Get(b, "type")]}
             ELSE IF j # i
             THEN {[blockId |-> IdAt(new, i), op |-> OpMove,
                    blockType |-> Get(b, "type"), afterBlockId |-> after]}
             ELSE {}

\* C8: each block of the new sequence is classified by the first rule that
\* applies: insert (id not in old, afterBlockId the preceding new block's id,
\* none for the first), else modify (data or type differs), else move (index
\* differs, with the new afterBlockId), else nothing; one change at most.
C8_DiffClassifies ==
    (DiffDone /\ UniqueIds(fnIn.old) /\ UniqueIds(fnIn.new)) =>
        \A i \in 1..Len(fnIn.new) :
            LET m == Mentions(fnOut.val, IdAt(fnIn.new, i)) IN
            /\ {fnOut.val[k] : k \in m} = RuleFor(fnIn.old, fnIn.new, i)
            /\ Cardinality(m) = Cardinality(RuleFor(fnIn.old, fnIn.new, i))

\* An insert at the front, a type-only change that is also repositioned
\* (one modify), and an unchanged block pushed back (a move).
C8_Witness ==
    /\ DiffDone
    /\ fnIn.old = <<Block("a", "paragraph", "x"), Block("b", "paragraph", "x")>>
    /\ fnIn.new = <<Block("c", "paragraph", "x"), Block("a", "header", "x"),
                    Block("b", "paragraph", "x")>>
    /\ fnOut.val = << [blockId |-> Str("c"), op |-> OpInsert, blockType |-> Str("paragraph"),
                       afterBlockId |-> None],
                      [blockId |-> Str("a"), op |-> OpModify, blockType |-> Str("header")],
                      [blockId |-> Str("b"), op |-> OpMove, blockType |-> Str("paragraph"),
                       afterBlockId |-> Str("a")] >>

\* The changes of the output that name an id, whatever their op.
Named(out, bid) == {k \in 1..Len(out) : out[k].blockId = bid}

\* The example of the specification: old [A, B, C], new [A, C, B'].
ExampleOld == <<Block("a", "paragraph", "x"), Block("b", "paragraph", "x"),
                Block("c", "paragraph", "x")>>
ExampleNew == <<Block("a", "paragraph", "x"), Block("c", "paragraph", "x"),
                Block("b", "paragraph", "y")>>

\* C9: with unique ids, an id in both sequences gets no insert and no delete,
\* an id only in new exactly one insert, an id only in old exactly one delete,
\* and no id is named by two changes; for old [A, B, C] and new [A, C, B'] the
\* output is one move of C after A and one modify of B.
C9_DiffNoSpuriousChange ==
    (DiffDone /\ UniqueIds(fnIn.old) /\ UniqueIds(fnIn.new)) =>
        LET out == fnOut.val
            oldIds == IdsOf(fnIn.old)
            newIds == IdsOf(fnIn.new)
        IN  /\ \A k \in 1..Len(out) :
                  out[k].blockId \in (oldIds \cap newIds) => out[k].op \notin {OpInsert, OpDelete}
            /\ \A bid \in newIds \ oldIds :
                  \E k \in 1..Len(out) : Named(out, bid) = {k} /\ out[k].op = OpInsert
            /\ \A bid \in oldIds \ newIds :
                  \E k \in 1..Len(out) : Named(out, bid) = {k} /\ out[k].op = OpDelete
            /\ \A bid \in oldIds \cup newIds : Cardinality(Named(out, bid)) <= 1
            /\ (fnIn.old = ExampleOld /\ fnIn.new = ExampleNew) =>
                  out = << [blockId |-> Str("c"), op |-> OpMove, blockType |-> Str("paragraph"),
                            afterBlockId |-> Str("a")],
                           [blockId |-> Str("b"), op |-> OpModify,
                            blockType |-> Str("paragraph")] >>

\* The example has been diffed.
C9_Witness == DiffDone /\ fnIn.old = ExampleOld /\ fnIn.new = ExampleNew

RECURSIVE IsSubseqFrom(_, _, _, _)
IsSubseqFrom(s, i, t, j) ==
    IF i > Len(s) THEN TRUE
    ELSE IF j > Len(t) THEN FALSE
    ELSE IF s[i] = t[j] THEN IsSubseqFrom(s, i + 1, t, j + 1)
    ELSE IsSubseqFrom(s, i, t, j + 1)

IsDelete(c) == c.op = OpDelete
IsNoDelete(c) == c.op # OpDelete
IdsIn(changes) == [k \in 1..Len(changes) |-> changes[k].blockId]
BlockIdsIn(blocks) == [k \in 1..Len(blocks) |-> IdAt(blocks, k)]

\* C10: in the output no delete comes before an insert, modify or move; the
\* inserts, modifies and moves follow the order of their blocks in new, and
\* the deletes the order of their blocks in old.
C10_DiffOrdered ==
    DiffDone =>
        LET out == fnOut.val IN
        /\ \A k, l \in 1..Len(out) : (k < l /\ IsDelete(out[k])) => IsDelete(out[l])
        /\ IsSubseqFrom(IdsIn(SelectSeq(out, IsNoDelete)), 1, BlockIdsIn(fnIn.new), 1)
        /\ IsSubseqFrom(IdsIn(SelectSeq(out, IsDelete)), 1, BlockIdsIn(fnIn.old), 1)

\* A move, a modify and a delete in one output.
C10_Witness ==
    /\ DiffDone
    /\ fnIn.old = <<Block("a", "paragraph", "x"), Block("b", "paragraph", "x"),
                    Block("c", "paragraph", "x")>>
    /\ fnIn.new = <<Block("c", "paragraph", "x"), Block("b", "paragraph", "y")>>
    /\ IdsIn(fnOut.val) = <<Str("c"), Str("b"), Str("a")>>
    /\ Len(SelectSeq(fnOut.val, IsNoDelete)) = 2
    /\ Len(SelectSeq(fnOut.val, IsDelete)) = 1

(***************************************************************************)
(* Properties of single create_page and update_page calls (SpecOne).       *)
(***************************************************************************)
\* C11: a create_page call that returns has appended exactly one line to its
\* page's oplog, with op "create" and one insert per block, in block order;
\* the k-th names block k-1 as afterBlockId and the first has no
\* afterBlockId.  The changes do not depend on what the page held before
\* (no diff): C11_Witness is a page created twice with the same blocks.
C11_CreateEntry ==
    [][\A w \in Writers :
          (Returns(w) /\ arg[w].op = "create") =>
              LET p == arg[w].page
                  blocks == arg[w].blocks
                  e == Last(oplog'[p])
              IN  /\ oplog'[p] = Append(oplog[p], e)
                  /\ e.op = Str("create")
                  /\ Len(e.blockChanges) = Len(blocks)
                  /\ \A k \in 1..Len(blocks) :
                        LET c == e.blockChanges[k] IN
                        /\ c.op = OpInsert
                        /\ c.blockId = IdAt(blocks, k)
                        /\ IF k = 1 THEN "afterBlockId" \notin DOMAIN c
                           ELSE /\ "afterBlockId" \in DOMAIN c
                                /\ c.afterBlockId = IdAt(blocks, k - 1)
      ]_vars

\* Two create entries of three inserts each on one page: the second call found
\* the same three blocks already stored.
C11_Witness ==
    /\ Len(oplog["p1"]) = 2
    /\ \A i \in 1..2 : /\ oplog["p1"][i].op = Str("create")
                       /\ Len(oplog["p1"][i].blockChanges) = 3
                       /\ oplog["p1"][i].blockChanges[3].afterBlockId = Str("b")

\* C12: an update_page call without content that returns has appended exactly
\* one "modify" line with empty blockChanges whose contentHash is the hash of
\* the content the page had before the call, hence equal to its own prevHash
\* when the last line before the call carried that hash.
C12_MetadataOnlyEntry ==
    [][\A w \in Writers :
          (Returns(w) /\ arg[w].op = "update" /\ arg[w].content = None) =>
              LET p == arg[w].page
                  e == Last(oplog'[p])
                  before == _content_hash(loc[w].old_content)
              IN  /\ oplog'[p] = Append(oplog[p], e)
                  /\ e.op = Str("modify")
                  /\ e.blockChanges = <<>>
                  /\ e.contentHash = before
                  /\ (oplog[p] # <<>> /\ Last(oplog[p]).contentHash = before)
                        => e.contentHash = e.prevHash
      ]_vars

\* C13: an update_page call whose content equals the page's current content
\* (and that passes no extra_fields) appends a line with the contentHash of
\* the line before it and with empty blockChanges, and leaves the stored
\* content equal to what it was.
C13_SameContentEntry ==
    [][\A w \in Writers :
          LET p == arg[w].page IN
          (/\ Returns(w)
           /\ arg[w].op = "update"
           /\ arg[w].content # None
           /\ arg[w].extra = None
           /\ PyEq(arg[w].content, loc[w].old_content)
           /\ UniqueIds(BlocksOf(arg[w].content))
           /\ oplog[p] # <<>>) =>
              LET e == Last(oplog'[p]) IN
              /\ e.contentHash = Last(oplog[p]).contentHash
              /\ e.blockChanges = <<>>
              /\ IsDoc(pageFile'[p])
              /\ PyEq(Lookup(pageFile'[p][2], "content"), loc[w].old_content)
      ]_vars

PartialFields == {"title", "content", "tags"}
ExtraKeys(w) == IF Truthy(arg[w].extra) THEN Keys(arg[w].extra) ELSE {}
Supplied(w) == {k \in PartialFields : arg[w][k] # None}

\* C14: update_page is a partial update.  In the step that puts the updated
\* page in place, title, content and tags keep their stored value unless
\* supplied, every other field but the extra_fields keys and updatedAt keeps
\* its value, and no field appears that is not among those; no step of the
\* call changes a file of another page.
C14_PartialUpdate ==
    [][\A w \in Writers :
          (arg[w].op = "update" /\ pc'[w] # pc[w]) =>
              LET p == arg[w].page IN
              /\ \A q \in Pages \ {p} :
                    /\ pageFile'[q] = pageFile[q]
                    /\ tmpFile'[q] = tmpFile[q]
                    /\ oplog'[q] = oplog[q]
              /\ (pc[w] = "rename" /\ pc'[w] = "changes") =>
                    /\ IsDoc(pageFile[p])
                    /\ IsDoc(pageFile'[p])
                    /\ LET old == pageFile[p][2]
                           new == pageFile'[p][2]
                       IN  /\ \A k \in PartialFields \ Supplied(w) :
                                 Get(new, k) = Get(old, k)
                           /\ \A k \in Keys(old) \ (Supplied(w) \cup ExtraKeys(w)
                                                        \cup {"updatedAt"}) :
                                 Get(new, k) = Get(old, k)
                           /\ Keys(new) \subseteq
                                 Keys(old) \cup ExtraKeys(w) \cup {"updatedAt"}
      ]_vars

\* C15: update_page on a page that has no page file raises the not-found
\* error and changes nothing.  An update goes past read_page only when the
\* page file is there; a call that starts and leaves its writer idle has
\* raised FileNotFoundError on an absent page and has changed no page file, no
\* temporary file and no oplog.
C15_NotFoundChangesNothing ==
    [][/\ \A w \in Writers :
             (Idle(w) /\ pc'[w] # "idle" /\ arg'[w].op = "update")
                 => pageFile[arg'[w].page] # Absent
       /\ (calls' = calls + 1 /\ pc' = pc) =>
             /\ pageFile' = pageFile
             /\ tmpFile' = tmpFile
             /\ oplog' = oplog
             /\ \E w \in Writers :
                   /\ outcome'[w] = "FileNotFoundError"
                   /\ hist'[w].page \in Pages
                   /\ pageFile[hist'[w].page] = Absent
      ]_vars

\* update_page has just raised not-found on p1 while p2 holds a page and an
\* oplog line.
C15_Witness ==
    /\ outcome[One] = "FileNotFoundError"
    /\ hist[One].page = "p1"
    /\ pageFile["p1"] = Absent /\ tmpFile["p1"] = Absent /\ oplog["p1"] = <<>>
    /\ IsDoc(pageFile["p2"]) /\ Len(oplog["p2"]) = 1

\* C16: the id stored in pages/<pageId>.json is the <pageId> of the file name,
\* whatever update_page calls (title, content, tags, extra_fields) were made.
C16_IdImmutable ==
    \A p \in Pages : IsDoc(pageFile[p]) => Lookup(pageFile[p][2], "id") = Str(p)

(***************************************************************************)
(* The name resolver (nous_mcp/storage.py).  A text is the sequence of its *)
(* characters, so that lower() and startswith() are computed, not assumed. *)
(***************************************************************************)
\* str.lower() on ASCII text
UpperCase == <<"A", "B", "C", "D", "E", "F", "G", "H", "I", "J", "K", "L", "M", "N",
               "O", "P", "Q", "R", "S", "T", "U", "V", "W", "X", "Y", "Z">>
LowerCase == <<"a", "b", "c", "d", "e", "f", "g", "h", "i", "j", "k", "l", "m", "n",
               "o", "p", "q", "r", "s", "t", "u", "v", "w", "x", "y", "z">>
LowerChar(c) ==
    IF \E i \in 1..Len(UpperCase) : UpperCase[i] = c
    THEN LowerCase[CHOOSE i \in 1..Len(UpperCase) : UpperCase[i] = c]
    ELSE c
StrLower(s) == [i \in 1..Len(s) |-> LowerChar(s[i])]

\* s.startswith(prefix)
StartsWith(s, prefix) == Len(prefix) <= Len(s) /\ SubSeq(s, 1, Len(prefix)) = prefix

\* item.get(key, ""): the text of the key, empty when the item has no such key
KeyText(item, key) == Items(GetOr(item, key, Str(<<>>)))

\* What a call gives back: the item it returns or the ValueError it raises.
Returned(item) == [raised |-> "none", item |-> item]
ValueError(kind, names) == [raised |-> "ValueError", kind |-> kind, names |-> names]
\* [item.get(key, "") for item in items]
NamesOf(items, key) == [i \in 1..Len(items) |-> KeyText(items[i], key)]

\* No exact tier: every query goes through the prefix match.
ResolvePrefixOnly(name, items, key) ==
    LET name_lower == StrLower(name)
        prefix == SelectSeq(items,
                            LAMBDA it : StartsWith(StrLower(KeyText(it, key)), name_lower))
    IN  IF Len(prefix) = 1 THEN Returned(prefix[1])
        ELSE IF Len(prefix) > 1 THEN ValueError("Ambiguous name", NamesOf(prefix, key))
        ELSE ValueError("Not found", NamesOf(items, key))

\* The first match taken when there are several.
ResolveFirstMatch(name, items, key) ==
    LET name_lower == StrLower(name)
        exact == SelectSeq(items, LAMBDA it : StrLower(KeyText(it, key)) = name_lower)
        prefix == SelectSeq(items,
                            LAMBDA it : StartsWith(StrLower(KeyText(it, key)), name_lower))
    IN  IF Len(exact) >= 1 THEN Returned(exact[1])
        ELSE IF Len(prefix) >= 1 THEN Returned(prefix[1])
        ELSE ValueError("Not found", NamesOf(items, key))

\* _resolve_name: what it returns or raises; the message of the ValueError is
\* its opening words and the names it joins.
_resolve_name(name, items, key) ==
    LET name_lower == StrLower(name)
        exact == SelectSeq(items, LAMBDA it : StrLower(KeyText(it, key)) = name_lower)
        prefix == SelectSeq(items,
                            LAMBDA it : StartsWith(StrLower(KeyText(it, key)), name_lower))
    IN  IF Len(exact) = 1 THEN Returned(exact[1])
        ELSE IF Len(prefix) = 1 THEN Returned(prefix[1])
        ELSE IF Len(prefix) > 1 THEN ValueError("Ambiguous name", NamesOf(prefix, key))
        ELSE ValueError("Not found", NamesOf(items, key))

\* The candidates: notebooks named Work, work, Work Archive and Home, and one
\* without a name.
TxtWork == <<"W", "o", "r", "k">>
TxtWorkLower == <<"w", "o", "r", "k">>
TxtWorkArchive == <<"W", "o", "r", "k", " ", "A", "r", "c", "h", "i", "v", "e">>
TxtHome == <<"H", "o", "m", "e">>
NamedItem(id, text) == Dict(<< <<"id", Str(id)>>, <<"name", Str(text)>> >>)
Unnamed(id) == Dict(<< <<"id", Str(id)>> >>)
Candidates == {NamedItem("n1", TxtWork), NamedItem("n2", TxtWorkLower),
               NamedItem("n3", TxtWorkArchive), NamedItem("n4", TxtHome), Unnamed("n5")}
Queries == {TxtWork, <<"W", "O", "R", "K">>, <<"w", "o">>,
            <<"w", "o", "r", "k", " ">>, <<"h", "o", "m", "e">>, <<"x">>, <<>>}

InitResolve ==
    /\ InitStore
    /\ fnIn \in {[f |-> "resolve", name |-> q, items |-> c] :
                    q \in Queries, c \in SeqsUpTo(Candidates, MaxItems)}
    /\ fnOut = NotRun

CallResolveName ==
    /\ fnIn.f = "resolve"
    /\ ~fnOut.done
    /\ fnOut' = [done |-> TRUE, val |-> _resolve_name(fnIn.name, fnIn.items, "name")]
    /\ UNCHANGED <<fnIn, storeVars, toolVars>>

SpecResolve == InitResolve /\ [][CallResolveName]_vars

(***************************************************************************)
(* Properties of _resolve_name.                                            *)
(***************************************************************************)
ResolveDone == fnIn.f = "resolve" /\ fnOut.done

\* The positions of the candidates whose name equals the query, and of those
\* whose name starts with it, letter case ignored.
ExactAt ==
    {i \in 1..Len(fnIn.items) :
        StrLower(KeyText(fnIn.items[i], "name")) = StrLower(fnIn.name)}
PrefixAt ==
    {i \in 1..Len(fnIn.items) :
        LET n == StrLower(KeyText(fnIn.items[i], "name")) IN
        /\ Len(n) >= Len(fnIn.name)
        /\ \A j \in 1..Len(fnIn.name) : n[j] = LowerChar(fnIn.name[j])}
TheOne(S) == CHOOSE i \in S : TRUE

\* The names of the candidates at the positions S, in the candidates' order.
RECURSIVE NamesAt(_, _)
NamesAt(S, i) ==
    IF i > Len(fnIn.items) THEN <<>>
    ELSE (IF i \in S THEN <<KeyText(fnIn.items[i], "name")>> ELSE <<>>) \o NamesAt(S, i + 1)

\* C17: when exactly one candidate's name equals the query (case ignored)
\* _resolve_name returns that candidate, even if the query is a prefix of
\* other names; otherwise, when exactly one name starts with the query, it
\* returns that one.
C17_ExactBeatsPrefix ==
    ResolveDone =>
        /\ Cardinality(ExactAt) = 1
              => fnOut.val = [raised |-> "none", item |-> fnIn.items[TheOne(ExactAt)]]
        /\ (Cardinality(ExactAt) # 1 /\ Cardinality(PrefixAt) = 1)
              => fnOut.val = [raised |-> "none", item |-> fnIn.items[TheOne(PrefixAt)]]

\* The example of the specification: candidates Work and Work Archive, query
\* Work, resolved to Work.
C17_Witness ==
    /\ ResolveDone
    /\ fnIn.name = TxtWork
    /\ fnIn.items = <<NamedItem("n3", TxtWorkArchive), NamedItem("n1", TxtWork)>>
    /\ fnOut.val = [raised |-> "none", item |-> NamedItem("n1", TxtWork)]

\* C18: without a unique exact match, _resolve_name raises "Not found" with
\* the names of all candidates when no name starts with the query, and
\* "Ambiguous name" with exactly the names that start with it when two or
\* more do (two names equal to the query included); it returns no candidate.
C18_ResolveErrors ==
    (ResolveDone /\ Cardinality(ExactAt) # 1) =>
        /\ PrefixAt = {}
              => fnOut.val = [raised |-> "ValueError", kind |-> "Not found",
                              names |-> NamesAt(1..Len(fnIn.items), 1)]
        /\ Cardinality(PrefixAt) >= 2
              => fnOut.val = [raised |-> "ValueError", kind |-> "Ambiguous name",
                              names |-> NamesAt(PrefixAt, 1)]

\* Two candidates named as the query, and a third that only starts with it:
\* ambiguous, all three listed.
C18_Witness ==
    /\ ResolveDone
    /\ fnIn.name = <<"W", "O", "R", "K">>
    /\ fnIn.items = <<NamedItem("n1", TxtWork), NamedItem("n3", TxtWorkArchive),
                      NamedItem("n2", TxtWorkLower)>>
    /\ fnOut.val = [raised |-> "ValueError", kind |-> "Ambiguous name",
                    names |-> <<TxtWork, TxtWorkArchive, TxtWorkLower>>]

(***************************************************************************)
(* search_pages (nous_mcp/storage.py) over one notebook.  scan is the      *)
(* sequence of the page files in the order glob("*.json") yields them.     *)
(***************************************************************************)
SnippetPad == 50

Max2(a, b) == IF a > b THEN a ELSE b
Min2(a, b) == IF a < b THEN a ELSE b

\* text.find(sub): the first position (from 0) where sub occurs, -1 if none
Find(text, sub) ==
    LET at == {i \in 0..(Len(text) - Len(sub)) : SubSeq(text, i + 1, i + Len(sub)) = sub}
    IN  IF at = {} THEN -1 ELSE CHOOSE i \in at : \A j \in at : i <= j

\* sub in text
Contains(text, sub) == Find(text, sub) >= 0

\* " ".join(parts)
RECURSIVE JoinSpace(_, _)
JoinSpace(parts, i) ==
    IF i > Len(parts) THEN <<>>
    ELSE (IF i > 1 THEN <<" ">> ELSE <<>>) \o parts[i] \o JoinSpace(parts, i + 1)

\* d.get(k, "") as a text
TextOf(d, k) == Items(GetOr(d, k, Str(<<>>)))

\* the text of one item of a list block: a string, or a dict with content or text
ListItemText(item) ==
    IF Kind(item) = "str" THEN <<Items(item)>>
    ELSE IF Kind(item) = "dict"
    THEN <<Items(GetOr(item, "content", GetOr(item, "text", Str(<<>>))))>>
    ELSE <<>>

RECURSIVE ListParts(_, _)
ListParts(items, i) ==
    IF i > Len(items) THEN <<>>
    ELSE ListItemText(items[i]) \o ListParts(items, i + 1)

\* the string cells of the rows that are lists
RECURSIVE RowCells(_, _)
RowCells(row, j) ==
    IF j > Len(row) THEN <<>>
    ELSE (IF Kind(row[j]) = "str" THEN <<Items(row[j])>> ELSE <<>>) \o RowCells(row, j + 1)
RECURSIVE TableCells(_, _)
TableCells(rows, i) ==
    IF i > Len(rows) THEN <<>>
    ELSE (IF Kind(rows[i]) = "list" THEN RowCells(Items(rows[i]), 1) ELSE <<>>)
         \o TableCells(rows, i + 1)

\* _extract_block_text
_extract_block_text(block) ==
    LET data == GetOr(block, "data", Dict(<<>>))
        block_type == GetOr(block, "type", Str(""))
    IN  IF block_type \in {Str("paragraph"), Str("header"), Str("quote")}
        THEN TextOf(data, "text")
        ELSE IF block_type = Str("code") THEN TextOf(data, "code")
        ELSE IF block_type = Str("list")
        THEN JoinSpace(ListParts(Items(GetOr(data, "items", List(<<>>))), 1), 1)
        ELSE IF block_type = Str("checklist")
        THEN LET items == Items(GetOr(data, "items", List(<<>>)))
             IN  JoinSpace([i \in 1..Len(items) |-> TextOf(items[i], "text")], 1)
        ELSE IF block_type = Str("callout")
        THEN TextOf(data, "title") \o <<" ">> \o TextOf(data, "content")
        ELSE IF block_type = Str("table")
        THEN JoinSpace(TableCells(Items(GetOr(data, "content", List(<<>>))), 1), 1)
        ELSE <<>>

Ellipsis == <<".", ".", ".">>

\* the snippet of the first block whose text holds the query, "" when none does
RECURSIVE SnippetFrom(_, _, _)
SnippetFrom(blocks, i, query) ==
    IF i > Len(blocks) THEN <<>>
    ELSE LET text == _extract_block_text(blocks[i])
             pos == Find(StrLower(text), StrLower(query))
         IN  IF text = <<>> \/ pos < 0 THEN SnippetFrom(blocks, i + 1, query)
             ELSE LET start == Max2(0, pos - SnippetPad)
                      end == Min2(Len(text), pos + Len(query) + SnippetPad)
                  IN  (IF start > 0 THEN Ellipsis ELSE <<>>)
                      \o SubSeq(text, start + 1, end)
                      \o (IF end < Len(text) THEN Ellipsis ELSE <<>>)

\* What the scan of one file adds: nothing for a file that does not parse, an
\* archived page or a page without a hit, else the entry and its list.
SearchHitKind(file, query) ==
    IF ~IsDoc(file) THEN "none"
    ELSE LET page == file[2] IN
         IF GetOr(page, "isArchived", Bool(FALSE)) = Bool(TRUE) THEN "none"
         ELSE LET title_hit == Contains(StrLower(TextOf(page, "title")), StrLower(query))
                  snippet == SnippetFrom(
                                 BlocksOf(GetOr(page, "content", Dict(<<>>))), 1, query)
              IN  IF title_hit THEN "title"
                  ELSE IF snippet # <<>> THEN "content"
                  ELSE "none"
SearchHit(file, query) ==
    IF SearchHitKind(file, query) = "none" THEN [hit |-> "none"]
    ELSE LET page == file[2]
             entry == [pageId |-> Lookup(page, "id"), notebookId |-> Str(Notebook),
                       notebookName |-> Str(Notebook), title |-> Str(TextOf(page, "title")),
                       snippet |-> Str(SnippetFrom(
                                       BlocksOf(GetOr(page, "content", Dict(<<>>))), 1, query)),
                       tags |-> GetOr(page, "tags", List(<<>>))]
         IN  [hit |-> SearchHitKind(file, query), entry |-> entry]

\* page["id"] of a page with a hit that has no id: the scan ends in KeyError
SearchRaises(scan, query) ==
    \E i \in 1..Len(scan) :
        SearchHitKind(scan[i], query) # "none" /\ ~HasKey(scan[i][2], "id")

\* title_matches / content_matches after the scan
RECURSIVE MatchesFrom(_, _, _, _)
MatchesFrom(scan, i, query, kind) ==
    IF i > Len(scan) THEN <<>>
    ELSE (IF SearchHit(scan[i], query).hit = kind
          THEN <<SearchHit(scan[i], query).entry>> ELSE <<>>)
         \o MatchesFrom(scan, i + 1, query, kind)

\* results[:limit] for limit >= 0
Truncate(results, limit) == SubSeq(results, 1, Min2(limit, Len(results)))

\* what a scan returns, and the exception of page["id"] on a page without id
Listed(pages) == [raised |-> "none", pages |-> pages]
KeyError == [raised |-> "KeyError"]

\* One list for all hits, in scan order.
SearchScanOrder(scan, query, limit) ==
    LET hits == [i \in 1..Len(scan) |-> SearchHit(scan[i], query)]
        RECURSIVE All(_)
        All(i) == IF i > Len(scan) THEN <<>>
                  ELSE (IF hits[i].hit # "none" THEN <<hits[i].entry>> ELSE <<>>) \o All(i + 1)
    IN  IF SearchRaises(scan, query) THEN KeyError ELSE Listed(Truncate(All(1), limit))

\* search_pages
search_pages(scan, query, limit) ==
    IF SearchRaises(scan, query) THEN KeyError
    ELSE Listed(Truncate(MatchesFrom(scan, 1, query, "title")
                         \o MatchesFrom(scan, 1, query, "content"), limit))

\* The page files: a title hit, a content-only hit, a hit in both, no hit,
\* an archived page with a title hit, a file that does not parse.
TxtBudget == <<"B", "u", "d", "g", "e", "t">>
TxtMyBudget == <<"m", "y", " ", "b", "u", "d", "g", "e", "t">>
TxtMisc == <<"m", "i", "s", "c">>
SearchPage(id, title, blocks, archived) ==
    Dict(<< <<"id", Str(id)>>, <<"title", Str(title)>>,
            <<"content", Dict(<< <<"blocks", List(blocks)>> >>)>>,
            <<"tags", List(<<>>)>>, <<"isArchived", Bool(archived)>> >>)
TextBlock(id, type, field, text) ==
    Dict(<< <<"id", Str(id)>>, <<"type", Str(type)>>,
            <<"data", Dict(<< <<field, Str(text)>> >>)>> >>)
FileTitleHit ==
    Doc(SearchPage("s1", TxtBudget, <<TextBlock("a", "paragraph", "text", TxtMisc)>>, FALSE))
FileContentHit ==
    Doc(SearchPage("s2", TxtMisc, <<TextBlock("a", "paragraph", "text", TxtMisc),
                                    TextBlock("b", "paragraph", "text", TxtMyBudget)>>, FALSE))
\* the block of the third holds the query more than SnippetPad characters from
\* both of its ends
LongPad == [i \in 1..(SnippetPad + 1) |-> "x"]
FileBothHit ==
    Doc(SearchPage("s3", TxtMyBudget,
                   <<TextBlock("a", "code", "code", LongPad \o TxtBudget \o LongPad)>>,
                   FALSE))
SearchFiles ==
    {FileTitleHit, FileContentHit, FileBothHit,
     Doc(SearchPage("s4", TxtMisc, <<>>, FALSE)),
     Doc(SearchPage("s5", TxtBudget, <<>>, TRUE)),
     Partial}
SearchQueries == {<<"b", "u", "d", "g", "e", "t">>, <<"B", "U", "D">>}

InitSearch ==
    /\ InitStore
    /\ fnIn \in {[f |-> "search", scan |-> sc, query |-> q, limit |-> l] :
                    sc \in SeqsUpTo(SearchFiles, MaxScan), q \in SearchQueries,
                    l \in 0..MaxScan}
    /\ fnOut = NotRun

CallSearchPages ==
    /\ fnIn.f = "search"
    /\ ~fnOut.done
    /\ fnOut' = [done |-> TRUE, val |-> search_pages(fnIn.scan, fnIn.query, fnIn.limit)]
    /\ UNCHANGED <<fnIn, storeVars, toolVars>>

SpecSearch == InitSearch /\ [][CallSearchPages]_vars

(***************************************************************************)
(* Properties of search_pages.                                             *)
(***************************************************************************)
SearchDone == fnIn.f = "search" /\ fnOut.done

\* The query occurs in the title of a result entry, letter case ignored.
TitleMatches(entry) ==
    \E i \in 0..(Len(Items(entry.title)) - Len(fnIn.query)) :
        \A j \in 1..Len(fnIn.query) :
            LowerChar(Items(entry.title)[i + j]) = LowerChar(fnIn.query[j])

\* The scanned files that are pages, not archived, with the query in the title.
TitleFilesAt ==
    {i \in 1..Len(fnIn.scan) :
        /\ IsDoc(fnIn.scan[i])
        /\ Get(fnIn.scan[i][2], "isArchived") # Bool(TRUE)
        /\ TitleMatches([title |-> Get(fnIn.scan[i][2], "title")])}

\* C19: in the result of search_pages no entry that matches only in its
\* blocks precedes an entry whose title matches, whatever the scan order; the
\* result has at most `limit` entries, and an entry without a title match is
\* in it only if every title match of the scan is.
C19_TitleMatchesFirst ==
    SearchDone =>
        LET out == fnOut.val.pages
            titled == {k \in 1..Len(out) : TitleMatches(out[k])}
        IN  /\ \A k, l \in 1..Len(out) : (k < l /\ l \in titled) => k \in titled
            /\ Len(out) <= fnIn.limit
            /\ Len(out) = Min2(fnIn.limit,
                               Len(MatchesFrom(fnIn.scan, 1, fnIn.query, "title"))
                               + Len(MatchesFrom(fnIn.scan, 1, fnIn.query, "content")))
            /\ titled # 1..Len(out) => Cardinality(titled) = Cardinality(TitleFilesAt)
            /\ Cardinality(titled) = Min2(fnIn.limit, Cardinality(TitleFilesAt))

\* the texts of the blocks of a page, one after the other
RECURSIVE BlockTextsFrom(_, _)
BlockTextsFrom(blocks, i) ==
    IF i > Len(blocks) THEN <<>>
    ELSE _extract_block_text(blocks[i]) \o BlockTextsFrom(blocks, i + 1)

\* the query occurs at position pos (from 0) of the text, letter case ignored
OccursAt(text, pos) ==
    /\ pos + Len(fnIn.query) <= Len(text)
    /\ \A j \in 1..Len(fnIn.query) : LowerChar(text[pos + j]) = LowerChar(fnIn.query[j])

\* the snippet around the first occurrence of the query in the text
SnippetIn(text) ==
    LET pos == CHOOSE n \in 0..Len(text) :
                   OccursAt(text, n) /\ \A m \in 0..(n - 1) : ~OccursAt(text, m)
        from == IF pos > SnippetPad THEN pos - SnippetPad ELSE 0
        to == IF pos + Len(fnIn.query) + SnippetPad < Len(text)
              THEN pos + Len(fnIn.query) + SnippetPad ELSE Len(text)
    IN  (IF from > 0 THEN Ellipsis ELSE <<>>)
        \o [k \in 1..(to - from) |-> text[from + k]]
        \o (IF to < Len(text) THEN Ellipsis ELSE <<>>)

\* C27: for a page returned by search_pages that matches in its block
\* content, the snippet is taken at the first occurrence of the query within
\* the concatenation of the page's block texts, extended by up to 50
\* characters on each side, with "..." prepended exactly when the snippet
\* does not start at the beginning of the text and "..." appended exactly
\* when it does not reach the end.
C27_SnippetAtFirstOccurrence ==
    SearchDone =>
        \A k \in 1..Len(fnOut.val.pages), i \in 1..Len(fnIn.scan) :
            (IsDoc(fnIn.scan[i]) /\ Lookup(fnIn.scan[i][2], "id") = fnOut.val.pages[k].pageId)
            => LET blocks == BlocksOf(Lookup(fnIn.scan[i][2], "content"))
                   text == BlockTextsFrom(blocks, 1)
               IN  (\E b \in 1..Len(blocks), n \in 0..Len(text) :
                        OccursAt(_extract_block_text(blocks[b]), n))
                   => fnOut.val.pages[k].snippet = Str(SnippetIn(text))

\* The content-only page scanned first, two title matches after it, limit 2:
\* the two title matches are the result.
C19_Witness ==
    /\ SearchDone
    /\ fnIn.limit = 2
    /\ fnIn.scan = <<FileContentHit, FileTitleHit, FileBothHit>>
    /\ [k \in 1..Len(fnOut.val.pages) |-> fnOut.val.pages[k].pageId]
           = <<Str("s1"), Str("s3")>>

(***************************************************************************)
(* One page's oplog file with lines that are not entries: appends through  *)
(* _append_oplog, appends cut short by a crash, and junk or empty lines    *)
(* put there by another program; read_oplog reads the file.                *)
(***************************************************************************)
OplogPage == "p1"
OplogContents == {NewContent(1, <<BlockA>>), NewContent(2, <<BlockA, BlockB>>)}

InitOplog ==
    /\ InitStore
    /\ fnIn = [f |-> "oplog"]
    /\ fnOut = NotRun

\* _append_oplog, its read and its write together (one writer)
OplogAppend ==
    /\ fnIn.f = "oplog"
    /\ Len(oplog[OplogPage]) < MaxLines
    /\ \E content \in OplogContents :
           oplog' = [oplog EXCEPT ![OplogPage] =
                        AppendLine(@, OplogEntry(One, Str("modify"), content,
                                                 _read_last_hash(@), <<>>))]
    /\ UNCHANGED <<pageFile, tmpFile, pc, arg, loc, fd, outcome, hist, lastRename, calls,
                   fnIn, fnOut, toolVars>>

\* _append_oplog ended by a crash inside f.write
OplogAppendCut ==
    /\ fnIn.f = "oplog"
    /\ Len(oplog[OplogPage]) < MaxLines
    /\ \E content \in OplogContents :
           LET entry == OplogEntry(One, Str("modify"), content,
                                   _read_last_hash(oplog[OplogPage]), <<>>)
           IN  \E piece \in {Torn, [k \in DOMAIN entry \cup {"open"} |->
                                        IF k = "open" THEN TRUE ELSE entry[k]]} :
                   oplog' = [oplog EXCEPT ![OplogPage] = CutLine(@, piece)]
    /\ UNCHANGED <<pageFile, tmpFile, pc, arg, loc, fd, outcome, hist, lastRename, calls,
                   fnIn, fnOut, toolVars>>

\* another program adds a line that is no entry
OplogForeignLine ==
    /\ fnIn.f = "oplog"
    /\ Len(oplog[OplogPage]) < MaxLines
    /\ \E line \in {Blank, Junk} :
           oplog' = [oplog EXCEPT ![OplogPage] =
                        IF @ # <<>> /\ Unterminated(@[Len(@)])
                        THEN [@ EXCEPT ![Len(@)] = Junk]
                        ELSE Append(@, line)]
    /\ UNCHANGED <<pageFile, tmpFile, pc, arg, loc, fd, outcome, hist, lastRename, calls,
                   fnIn, fnOut, toolVars>>

CallReadOplog ==
    /\ fnIn.f = "oplog"
    /\ fnOut' = [done |-> TRUE, val |-> read_oplog(oplog[OplogPage])]
    /\ fnOut' # fnOut
    /\ UNCHANGED <<fnIn, storeVars, toolVars>>

NextOplog == OplogAppend \/ OplogAppendCut \/ OplogForeignLine \/ CallReadOplog

SpecOplog == InitOplog /\ [][NextOplog]_vars

(***************************************************************************)
(* Properties of the oplog readers.                                        *)
(***************************************************************************)
\* the positions of the lines that hold an entry
EntryLinesAt(lines) == {i \in 1..Len(lines) : "contentHash" \in DOMAIN lines[i]}

ListLimit == 50

\* the files in the order glob yields them
GlobOf(dir, order) == [i \in 1..Len(dir) |-> dir[order[i]]]

\* the entry NousStorage.list_pages builds for a page that has an id
ListEntry(page) ==
    [id |-> Lookup(page, "id"),
     title |-> GetOr(page, "title", Str(<<>>)),
     tags |-> GetOr(page, "tags", List(<<>>)),
     folderId |-> Get(page, "folderId"),
     sectionId |-> Get(page, "sectionId"),
     pageType |-> GetOr(page, "pageType", Str("standard")),
     isArchived |-> GetOr(page, "isArchived", Bool(FALSE)),
     updatedAt |-> GetOr(page, "updatedAt", Str(<<>>)),
     createdAt |-> GetOr(page, "createdAt", Str(<<>>))]

\* the entry NousPageStorage.list_pages builds for a page that has an id
PageStorageEntry(page) ==
    [id |-> Lookup(page, "id"),
     title |-> GetOr(page, "title", Str(<<>>)),
     tags |-> GetOr(page, "tags", List(<<>>)),
     folderId |-> Get(page, "folderId"),
     sectionId |-> Get(page, "sectionId"),
     pageType |-> GetOr(page, "pageType", Str("standard")),
     isArchived |-> GetOr(page, "isArchived", Bool(FALSE)),
     isDailyNote |-> GetOr(page, "isDailyNote", Bool(FALSE)),
     updatedAt |-> GetOr(page, "updatedAt", Str(<<>>)),
     createdAt |-> GetOr(page, "createdAt", Str(<<>>))]

\* tag.lower() in [t.lower() for t in page.get("tags", [])]
HasTag(page, tag) ==
    LET tags == Items(GetOr(page, "tags", List(<<>>)))
    IN  \E i \in 1..Len(tags) : StrLower(Items(tags[i])) = StrLower(Items(tag))

\* The page passes the filters of NousStorage.list_pages.
ListKeeps(page, folder_id, section_id, tag) ==
    /\ GetOr(page, "isArchived", Bool(FALSE)) # Bool(TRUE)
    /\ ~(Truthy(folder_id) /\ Get(page, "folderId") # folder_id)
    /\ ~(Truthy(section_id) /\ Get(page, "sectionId") # section_id)
    /\ ~(Truthy(tag) /\ ~HasTag(page, tag))

\* the pages the loop of NousStorage.list_pages reaches the append with
RECURSIVE ListKept(_, _, _, _, _)
ListKept(scan, i, folder_id, section_id, tag) ==
    IF i > Len(scan) THEN <<>>
    ELSE (IF IsDoc(scan[i]) /\ ListKeeps(scan[i][2], folder_id, section_id, tag)
          THEN <<scan[i][2]>> ELSE <<>>)
         \o ListKept(scan, i + 1, folder_id, section_id, tag)

\* key=lambda p: p.get("updatedAt", "")
UpdatedKey(entry) == IF Kind(entry.updatedAt) = "num" THEN Items(entry.updatedAt) ELSE 0

\* list.sort(key, reverse=True) is stable: equal keys keep their order
RECURSIVE InsertDesc(_, _)
InsertDesc(sorted, x) ==
    IF sorted = <<>> THEN <<x>>
    ELSE IF UpdatedKey(Head(sorted)) >= UpdatedKey(x)
    THEN <<Head(sorted)>> \o InsertDesc(Tail(sorted), x)
    ELSE <<x>> \o sorted
RECURSIVE SortDesc(_, _)
SortDesc(results, n) ==
    IF n = 0 THEN <<>> ELSE InsertDesc(SortDesc(results, n - 1), results[n])

\* NousStorage.list_pages
list_pages(scan, folder_id, section_id, tag, limit) ==
    LET kept == ListKept(scan, 1, folder_id, section_id, tag)
    IN  IF \E i \in 1..Len(kept) : ~HasKey(kept[i], "id") THEN KeyError
        ELSE LET results == [i \in 1..Len(kept) |-> ListEntry(kept[i])]
             IN  Listed(Truncate(SortDesc(results, Len(results)), limit))

\* NousPageStorage.list_pages: sorted(glob) is the order of the paths
RECURSIVE PageStorageListFrom(_, _)
PageStorageListFrom(dir, i) ==
    IF i > Len(dir) THEN <<>>
    ELSE (IF IsDoc(dir[i]) /\ HasKey(dir[i][2], "id")
          THEN <<PageStorageEntry(dir[i][2])>> ELSE <<>>)
         \o PageStorageListFrom(dir, i + 1)
page_storage_list_pages(dir) == Listed(PageStorageListFrom(dir, 1))

\* The page files: two pages updated at different times (one in a folder and
\* tagged), an archived page updated last, a page without updatedAt, a page
\* without id, a file that does not parse.
ListedPage(id, now) == NewPage(id, Str(TxtMisc), NewContent(now, <<>>), None, now)
FileOld ==
    Doc(SetKey(SetKey(ListedPage("l1", 1), "folderId", Str("f1")),
               "tags", List(<<Str(TxtWork)>>)))
FileNew == Doc(ListedPage("l2", 2))
FileArchived == Doc(SetKey(ListedPage("l3", 3), "isArchived", Bool(TRUE)))
FileNoStamp == Doc(Dict(<< <<"id", Str("l4")>>, <<"title", Str(TxtHome)>> >>))
FileNoId == Doc(Dict(<< <<"title", Str(TxtHome)>>, <<"updatedAt", Num(2)>> >>))
ListFiles == {FileOld, FileNew, FileArchived, FileNoStamp, FileNoId, Partial}
ListFolders == {None, Str("f1")}
ListTags == {None, Str(TxtWorkLower)}
ListLimits == {1, ListLimit}
\* the query of the search_pages calls over these files: the title of two of them
ListQuery == <<"h", "o", "m", "e">>

InitList ==
    /\ InitStore
    /\ \E dir \in SeqsUpTo(ListFiles, MaxScan) :
           \/ fnIn \in {[f |-> "list_pages", dir |-> dir, order |-> o, folder_id |-> fo,
                         section_id |-> None, tag |-> t, limit |-> l] :
                           o \in Perms(1..Len(dir)), fo \in ListFolders, t \in ListTags,
                           l \in ListLimits}
           \/ fnIn = [f |-> "page_storage_list_pages", dir |-> dir]
           \/ fnIn \in {[f |-> "search_pages", dir |-> dir, order |-> o,
                         query |-> ListQuery, limit |-> ListLimit] :
                           o \in Perms(1..Len(dir))}
    /\ fnOut = NotRun

CallListPages ==
    /\ fnIn.f = "list_pages"
    /\ ~fnOut.done
    /\ fnOut' = [done |-> TRUE,
                 val |-> list_pages(GlobOf(fnIn.dir, fnIn.order), fnIn.folder_id,
                                    fnIn.section_id, fnIn.tag, fnIn.limit)]
    /\ UNCHANGED <<fnIn, storeVars, toolVars>>

CallPageStorageListPages ==
    /\ fnIn.f = "page_storage_list_pages"
    /\ ~fnOut.done
    /\ fnOut' = [done |-> TRUE, val |-> page_storage_list_pages(fnIn.dir)]
    /\ UNCHANGED <<fnIn, storeVars, toolVars>>

\* search_pages over the same directories
CallSearchListed ==
    /\ fnIn.f = "search_pages"
    /\ ~fnOut.done
    /\ fnOut' = [done |-> TRUE,
                 val |-> search_pages(GlobOf(fnIn.dir, fnIn.order), fnIn.query, fnIn.limit)]
    /\ UNCHANGED <<fnIn, storeVars, toolVars>>

NextList == CallListPages \/ CallPageStorageListPages \/ CallSearchListed

SpecList == InitList /\ [][NextList]_vars

(***************************************************************************)
(* Properties of list_pages.                                               *)
(***************************************************************************)
ListDone == fnIn.f \in {"list_pages", "page_storage_list_pages"} /\ fnOut.done

\* the ids of the pages of the directory that are not archived
UnarchivedIds ==
    {Lookup(fnIn.dir[i][2], "id") :
        i \in {j \in 1..Len(fnIn.dir) :
                  /\ IsDoc(fnIn.dir[j])
                  /\ HasKey(fnIn.dir[j][2], "id")
                  /\ Get(fnIn.dir[j][2], "isArchived") # Bool(TRUE)}}

\* C20: a list_pages call that returns has no archived page in its result,
\* and the result is ordered by updatedAt, newest first; without folder,
\* section and tag filter and with room under the limit, every page of the
\* directory that is not archived is in the result.
C20_ListOmitsArchivedNewestFirst ==
    (ListDone /\ fnOut.val.raised = "none") =>
        LET out == fnOut.val.pages
        IN  /\ \A k \in 1..Len(out) : out[k].isArchived # Bool(TRUE)
            /\ \A k, l \in 1..Len(out) :
                   k < l => UpdatedKey(out[k]) >= UpdatedKey(out[l])
            /\ LET unfiltered ==
                       IF fnIn.f = "list_pages"
                       THEN /\ fnIn.folder_id = None
                            /\ fnIn.tag = None
                            /\ Cardinality(UnarchivedIds) <= fnIn.limit
                       ELSE TRUE
               IN  unfiltered => UnarchivedIds \subseteq {out[k].id : k \in 1..Len(out)}

(***************************************************************************)
(* The tool layer (nous_mcp/server.py) over the store, one call at a time: *)
(* every call of the store a tool makes runs to its end before the next    *)
(* tool call starts.  A uuid4() value is Uuid(n), n counting the ids drawn *)
(* for the file so far.                                                    *)
(***************************************************************************)
Client == "nous-mcp"
Uuid(n) == <<"uuid", n>>
\* isinstance(value, str)
IsStr(v) == Kind(v) \in {"str", "uuid"}

\* How a tool call ends; what it wrote is said by the action.
ToolEnds(how) ==
    /\ outcome' = [outcome EXCEPT ![One] = how]
    /\ calls' = calls + 1
    /\ UNCHANGED <<tmpFile, pc, arg, loc, fd, hist, lastRename, fnVars>>

\* A tool call that ends before its first write: it raised, or it only reads.
ToolWritesNothing(how) ==
    /\ ToolEnds(how)
    /\ UNCHANGED <<pageFile, oplog, dbFile, folders>>

\* storage.resolve_page with a UUID: read_page returns the page, or None for a
\* missing or unparsable file
Resolves(p) == IsDoc(pageFile[p])

\* NousPageStorage.create_page run to its end
CreatePageDone(p, page, content) ==
    /\ pageFile' = [pageFile EXCEPT ![p] = Doc(page)]
    /\ oplog' = [oplog EXCEPT ![p] =
            AppendLine(@, OplogEntry(Client, Str("create"), content, _read_last_hash(@),
                                     CreateChanges(BlocksOf(content))))]

\* NousPageStorage.update_page run to its end on a page that is there
UpdatePageDone(p, a) ==
    LET old == pageFile[p][2]
        page == UpdatedPage(old, a)
        old_content == Lookup(old, "content")
        new_content == Lookup(page, "content")
        block_changes == IF a.content # None
                         THEN _diff_blocks(BlocksOf(old_content), BlocksOf(new_content))
                         ELSE <<>>
    IN  /\ pageFile' = [pageFile EXCEPT ![p] = Doc(page)]
        /\ oplog' = [oplog EXCEPT ![p] =
                AppendLine(@, OplogEntry(Client, Str("modify"), new_content,
                                         _read_last_hash(@), block_changes))]

\* the clock of a tool call
Now == calls + 1

(***************************************************************************)
(* Databases: database_helpers.py and the database tools.                  *)
(***************************************************************************)
\* prop.get("options", [])
OptionsOf(prop) == IF "options" \in DOMAIN prop THEN prop.options ELSE <<>>

\* the first option whose label is the given one, letter case ignored; 0 if none
FindOption(options, label) ==
    LET at == {i \in 1..Len(options) :
                  StrLower(Items(options[i].label)) = StrLower(Items(label))}
    IN  IF at = {} THEN 0 ELSE CHOOSE i \in at : \A j \in at : i <= j

\* options.append(new_opt); prop["options"] = options
WithOption(prop, opt) ==
    [k \in DOMAIN prop \cup {"options"} |->
        IF k = "options" THEN Append(OptionsOf(prop), opt) ELSE prop[k]]

\* build_property (the colours left out); n ids were drawn before
build_property(spec, n) ==
    LET base == [id |-> Uuid(n + 1), name |-> spec.name, type |-> spec.type]
    IN  IF spec.type \in {"select", "multiSelect"} /\ "options" \in DOMAIN spec
        THEN [k \in DOMAIN base \cup {"options"} |->
                 IF k = "options"
                 THEN [i \in 1..Len(spec.options) |->
                          [id |-> Uuid(n + 1 + i), label |-> spec.options[i]]]
                 ELSE base[k]]
        ELSE base

\* The labels of a multiSelect value from position i on: the ids found so far,
\* the property with the options added, the ids drawn.
RECURSIVE ResolveLabels(_, _, _, _, _)
ResolveLabels(labels, i, prop, ids, n) ==
    IF i > Len(labels) THEN [raised |-> "none", value |-> List(ids), prop |-> prop, n |-> n]
    ELSE IF Kind(labels[i]) # "str" THEN [raised |-> "AttributeError"]
    ELSE LET at == FindOption(OptionsOf(prop), labels[i])
         IN  IF at > 0
             THEN ResolveLabels(labels, i + 1, prop,
                                Append(ids, OptionsOf(prop)[at].id), n)
             ELSE ResolveLabels(labels, i + 1,
                                WithOption(prop, [id |-> Uuid(n + 1), label |-> labels[i]]),
                                Append(ids, Uuid(n + 1)), n + 1)

\* resolve_cell_value: the stored value and the property as the call leaves it
resolve_cell_value(value, prop, n) ==
    IF prop.type = "select" /\ IsStr(value)
    THEN LET at == FindOption(OptionsOf(prop), value)
         IN  IF at > 0
             THEN [raised |-> "none", value |-> OptionsOf(prop)[at].id, prop |-> prop,
                   n |-> n]
             ELSE [raised |-> "none", value |-> Uuid(n + 1),
                   prop |-> WithOption(prop, [id |-> Uuid(n + 1), label |-> value]),
                   n |-> n + 1]
    ELSE IF prop.type = "multiSelect" /\ Kind(value) = "list"
    THEN ResolveLabels(Items(value), 1, prop, <<>>, n)
    ELSE [raised |-> "none", value |-> value, prop |-> prop, n |-> n]

\* the ids drawn for a database: one per property, option and row
RECURSIVE OptionCount(_, _)
OptionCount(properties, i) ==
    IF i > Len(properties) THEN 0
    ELSE Len(OptionsOf(properties[i])) + OptionCount(properties, i + 1)
UuidsIn(db) == Len(db.properties) + OptionCount(db.properties, 1) + Len(db.rows)

\* prop_by_name.get(key.lower()): the last property of that name, 0 if none
PropAt(properties, key) ==
    LET at == {i \in 1..Len(properties) : StrLower(properties[i].name) = StrLower(key)}
    IN  IF at = {} THEN 0 ELSE CHOOSE i \in at : \A j \in at : j <= i

\* cells[prop["id"]] = value
SetCell(cells, id, value) ==
    [k \in DOMAIN cells \cup {id} |-> IF k = id THEN value ELSE cells[k]]

\* for key, value in spec.items(), from pair i on
RECURSIVE CellsFrom(_, _, _, _, _)
CellsFrom(pairs, i, properties, cells, n) ==
    IF i > Len(pairs)
    THEN [raised |-> "none", properties |-> properties, cells |-> cells, n |-> n]
    ELSE LET at == PropAt(properties, pairs[i][1])
         IN  IF at = 0 THEN CellsFrom(pairs, i + 1, properties, cells, n)
             ELSE LET r == resolve_cell_value(pairs[i][2], properties[at], n)
                  IN  IF r.raised # "none" THEN [raised |-> r.raised]
                      ELSE CellsFrom(pairs, i + 1, [properties EXCEPT ![at] = r.prop],
                                     SetCell(cells, properties[at].id, r.value), r.n)

\* add_database_rows: for spec in row_specs, from spec j on
RECURSIVE NewRowsFrom(_, _, _, _, _, _)
NewRowsFrom(specs, j, properties, new_rows, n, now) ==
    IF j > Len(specs)
    THEN [raised |-> "none", properties |-> properties, new_rows |-> new_rows]
    ELSE LET c == CellsFrom(specs[j], 1, properties, <<>>, n)
         IN  IF c.raised # "none" THEN [raised |-> c.raised]
             ELSE NewRowsFrom(specs, j + 1, c.properties,
                              Append(new_rows, [id |-> Uuid(c.n + 1), cells |-> c.cells,
                                                createdAt |-> now, updatedAt |-> now]),
                              c.n + 1, now)

\* the row a reference names: a 0-based index or a row id; 0 when there is none
RowAt(rows, row_ref) ==
    IF Kind(row_ref) = "num"
    THEN IF Items(row_ref) < 0 \/ Items(row_ref) >= Len(rows) THEN 0 ELSE Items(row_ref) + 1
    ELSE LET at == {i \in 1..Len(rows) : rows[i].id = row_ref}
         IN  IF at = {} THEN 0 ELSE CHOOSE i \in at : \A j \in at : j <= i

\* update_database_rows: for spec in update_specs, from spec j on
RECURSIVE UpdatedRowsFrom(_, _, _, _, _, _)
UpdatedRowsFrom(specs, j, properties, rows, n, now) ==
    IF j > Len(specs) THEN [raised |-> "none", properties |-> properties, rows |-> rows]
    ELSE LET at == RowAt(rows, specs[j].row)
         IN  IF at = 0 THEN UpdatedRowsFrom(specs, j + 1, properties, rows, n, now)
             ELSE LET c == CellsFrom(specs[j].cells, 1, properties, rows[at].cells, n)
                  IN  IF c.raised # "none" THEN [raised |-> c.raised]
                      ELSE UpdatedRowsFrom(specs, j + 1, c.properties,
                               [rows EXCEPT ![at] = [@ EXCEPT !.cells = c.cells,
                                                              !.updatedAt = now]],
                               c.n, now)

\* built_properties of create_database
RECURSIVE BuiltFrom(_, _, _)
BuiltFrom(prop_specs, i, n) ==
    IF i > Len(prop_specs) THEN <<>>
    ELSE LET prop == build_property(prop_specs[i], n)
         IN  <<prop>> \o BuiltFrom(prop_specs, i + 1, n + 1 + Len(OptionsOf(prop)))

\* The arguments of the database tools.  A JSON argument is the value it parses
\* to, or Malformed when json.loads rejects the string.
Malformed == [parses |-> FALSE, value |-> <<>>]
Parsed(value) == [parses |-> TRUE, value |-> value]
TxtStatus == <<"S", "t", "a", "t", "u", "s">>
TxtStatusLower == <<"s", "t", "a", "t", "u", "s">>
TxtLabels == <<"L", "a", "b", "e", "l", "s">>
TxtTodo == <<"T", "o", "d", "o">>
TxtTodoLower == <<"t", "o", "d", "o">>
TxtDone == <<"D", "o", "n", "e">>
PropertyArgs ==
    << Malformed,
       Parsed(<< [name |-> TxtStatus, type |-> "select", options |-> <<Str(TxtTodo)>>],
                 [name |-> TxtLabels, type |-> "multiSelect"] >>) >>
RowArgs ==
    << Malformed,
       Parsed(<< << <<TxtStatusLower, Str(TxtTodoLower)>> >> >>),
       Parsed(<< << <<TxtStatus, Str(TxtDone)>>,
                    <<TxtLabels, List(<<Str(TxtTodo), Str(TxtTodoLower)>>)>> >> >>),
       Parsed(<< << <<TxtStatus, Num(3)>> >> >>),
       Parsed(<< << <<TxtLabels, Str(TxtTodo)>> >> >>),
       Parsed(<< << <<TxtMisc, Str(TxtTodo)>> >>,
                 << <<TxtLabels, List(<<Str(TxtDone)>>)>> >> >>) >>
UpdateArgs ==
    << Malformed,
       Parsed(<< [row |-> Num(0), cells |-> << <<TxtStatus, Str(TxtDone)>> >>] >>),
       Parsed(<< [row |-> Num(0), cells |-> << <<TxtLabels, List(<<Str(TxtTodoLower)>>)>> >>],
                 [row |-> Num(7), cells |-> << <<TxtStatus, Str(TxtTodo)>> >>] >>),
       Parsed(<< [row |-> Num(0), cells |-> << <<TxtStatus, List(<<Str(TxtDone)>>)>> >>] >>) >>
\* the arguments of a list that json.loads accepts, and whether it rejects one
ParsedIn(args) == {i \in 1..Len(args) : args[i].parses}
RejectedIn(args) == \E i \in 1..Len(args) : ~args[i].parses

\* the extra_fields create_database passes to create_page
DatabaseFields ==
    Dict(<< <<"pageType", Str("database")>>, <<"sourceFile", Str("files/page.database")>>,
            <<"storageMode", Str("embedded")>>, <<"fileExtension", Str("database")>> >>)

\* pg.get("pageType") != "database"
NotDatabase(p) == Resolves(p) /\ Get(pageFile[p][2], "pageType") # Str("database")

\* a call may start: no call of the store is in progress
ToolIdle == Idle(One) /\ calls < MaxCalls

\* create_database (the views left out)
CreateDatabase ==
    /\ ToolIdle
    /\ \E p \in Pages, i \in ParsedIn(PropertyArgs) :
          /\ pageFile[p] = Absent
          /\ LET properties == PropertyArgs[i].value
                 content == NewContent(Now, <<>>)
                 page == DictUpdate(NewPage(p, Str(TxtMisc), content, List(<<>>), Now),
                                    DatabaseFields)
             IN  /\ CreatePageDone(p, page, content)
                 /\ dbFile' = [dbFile EXCEPT ![p] =
                        Doc([version |-> 2, properties |-> BuiltFrom(properties, 1, 0),
                             rows |-> <<>>])]
    /\ ToolEnds("returned")
    /\ UNCHANGED folders

\* create_database, had it created the page before parsing its argument
CreateDatabaseParsesLate ==
    /\ ToolIdle
    /\ RejectedIn(PropertyArgs)
    /\ \E p \in Pages :
          /\ pageFile[p] = Absent
          /\ LET content == NewContent(Now, <<>>)
             IN  CreatePageDone(p, DictUpdate(NewPage(p, Str(TxtMisc), content, List(<<>>),
                                                     Now), DatabaseFields), content)
    /\ ToolEnds("JSONDecodeError")
    /\ UNCHANGED toolVars

\* create_database: json.loads(properties) raises
CreateDatabaseInvalid ==
    /\ ToolIdle
    /\ RejectedIn(PropertyArgs)
    /\ ToolWritesNothing("JSONDecodeError")

\* add_database_rows on a database whose file is there
AddDatabaseRows ==
    /\ ToolIdle
    /\ \E p \in Pages, i \in ParsedIn(RowArgs) :
          /\ Resolves(p) /\ ~NotDatabase(p) /\ IsDoc(dbFile[p])
          /\ LET rows == RowArgs[i].value
                 db == dbFile[p][2]
                 r == NewRowsFrom(rows, 1, db.properties, <<>>, UuidsIn(db), Now)
             IN  IF r.raised # "none" THEN ToolWritesNothing(r.raised)
                 ELSE /\ dbFile' = [dbFile EXCEPT ![p] =
                             Doc([db EXCEPT !.properties = r.properties,
                                            !.rows = db.rows \o r.new_rows])]
                      /\ UpdatePageDone(p, [NoFields EXCEPT !.now = Now])
                      /\ ToolEnds("returned")
                      /\ UNCHANGED folders

\* update_database_rows on a database whose file is there
UpdateDatabaseRows ==
    /\ ToolIdle
    /\ \E p \in Pages, i \in ParsedIn(UpdateArgs) :
          /\ Resolves(p) /\ ~NotDatabase(p) /\ IsDoc(dbFile[p])
          /\ LET updates == UpdateArgs[i].value
                 db == dbFile[p][2]
                 r == UpdatedRowsFrom(updates, 1, db.properties, db.rows, UuidsIn(db), Now)
             IN  IF r.raised # "none" THEN ToolWritesNothing(r.raised)
                 ELSE /\ dbFile' = [dbFile EXCEPT ![p] =
                             Doc([db EXCEPT !.properties = r.properties, !.rows = r.rows])]
                      /\ UpdatePageDone(p, [NoFields EXCEPT !.now = Now])
                      /\ ToolEnds("returned")
                      /\ UNCHANGED folders

\* get_database, add_database_rows, update_database_rows: the page is not
\* found, is no database, or its .database file is missing or unreadable
DatabaseToolRefused ==
    /\ ToolIdle
    /\ \E p \in Pages : ~Resolves(p) \/ NotDatabase(p) \/ ~IsDoc(dbFile[p])
    /\ ToolWritesNothing("ValueError")

\* add_database_rows, update_database_rows: json.loads of the argument raises
DatabaseRowsInvalid ==
    /\ ToolIdle
    /\ \E p \in Pages : Resolves(p) /\ ~NotDatabase(p) /\ IsDoc(dbFile[p])
    /\ RejectedIn(RowArgs) \/ RejectedIn(UpdateArgs)
    /\ ToolWritesNothing("JSONDecodeError")

\* get_database on a database: a read
GetDatabase ==
    /\ ToolIdle
    /\ \E p \in Pages : Resolves(p) /\ ~NotDatabase(p) /\ IsDoc(dbFile[p])
    /\ ToolWritesNothing("returned")


(***************************************************************************)
(* The page tools: create_page, update_page, append_to_page, manage_tags.  *)
(***************************************************************************)
\* t.strip() for the space character
RECURSIVE Strip(_)
Strip(t) ==
    IF t = <<>> THEN t
    ELSE IF Head(t) = " " THEN Strip(Tail(t))
    ELSE IF t[Len(t)] = " " THEN Strip(SubSeq(t, 1, Len(t) - 1))
    ELSE t

\* text.split(",") from position i on, cur being the piece read so far
RECURSIVE SplitFrom(_, _, _)
SplitFrom(text, i, cur) ==
    IF i > Len(text) THEN <<cur>>
    ELSE IF text[i] = "," THEN <<cur>> \o SplitFrom(text, i + 1, <<>>)
    ELSE SplitFrom(text, i + 1, Append(cur, text[i]))
SplitComma(text) == SplitFrom(text, 1, <<>>)

\* [t.strip() for t in tags.split(",") if t.strip()]
RECURSIVE StrippedFrom(_, _)
StrippedFrom(pieces, i) ==
    IF i > Len(pieces) THEN <<>>
    ELSE (IF Strip(pieces[i]) # <<>> THEN <<Strip(pieces[i])>> ELSE <<>>)
         \o StrippedFrom(pieces, i + 1)
TagList(tags) == StrippedFrom(SplitComma(tags), 1)

\* list(dict.fromkeys(existing_tags)): the first occurrence of each tag
RECURSIVE Dedup(_, _)
Dedup(tags, i) ==
    IF i > Len(tags) THEN <<>>
    ELSE (IF \E j \in 1..(i - 1) : tags[j] = tags[i] THEN <<>> ELSE <<tags[i]>>)
         \o Dedup(tags, i + 1)

\* manage_tags: the tags of `add` appended unless already there
RECURSIVE AddedFrom(_, _, _)
AddedFrom(tag_set, pieces, i) ==
    IF i > Len(pieces) THEN tag_set
    ELSE LET t == Strip(pieces[i])
         IN  AddedFrom(IF t # <<>> /\ ~(\E j \in 1..Len(tag_set) : tag_set[j] = t)
                       THEN Append(tag_set, t) ELSE tag_set,
                       pieces, i + 1)

\* manage_tags: the tags not named in `remove`, letter case ignored
RECURSIVE RemovedFrom(_, _, _)
RemovedFrom(tag_set, i, remove_set) ==
    IF i > Len(tag_set) THEN <<>>
    ELSE (IF StrLower(tag_set[i]) \in remove_set THEN <<>> ELSE <<tag_set[i]>>)
         \o RemovedFrom(tag_set, i + 1, remove_set)

\* the tag list manage_tags passes to update_page
ManagedTags(existing_tags, add, remove) ==
    LET tag_set == Dedup(existing_tags, 1)
        added == IF add # None /\ add # <<>>
                 THEN AddedFrom(tag_set, SplitComma(add), 1) ELSE tag_set
    IN  IF remove # None /\ remove # <<>>
        THEN RemovedFrom(added, 1,
                         {StrLower(TagList(remove)[k]) : k \in 1..Len(TagList(remove))})
        ELSE added

\* a tag list as the JSON value of the page's tags
TagsValue(tag_list) == List([k \in 1..Len(tag_list) |-> Str(tag_list[k])])
\* pg.get("tags", []) as texts
TagsOf(page) ==
    LET tags == Items(GetOr(page, "tags", List(<<>>)))
    IN  [k \in 1..Len(tags) |-> Items(tags[k])]

\* The ids _block_id() may draw (str(uuid4())[:8]), and those in use: an id
\* drawn is one no page and no oplog of the notebook holds.
BlockPool == <<"k1", "k2", "k3", "k4", "k5", "k6", "k7", "k8", "k9", "k10">>
UsedBlockIds ==
    UNION {{Lookup(BlocksOf(Lookup(pageFile[p][2], "content"))[k], "id") :
               k \in 1..Len(BlocksOf(Lookup(pageFile[p][2], "content")))} :
           p \in {q \in Pages : IsDoc(pageFile[q])}}
    \cup UNION {UNION {{oplog[p][i].blockChanges[k].blockId :
                          k \in 1..Len(oplog[p][i].blockChanges)} :
                      i \in 1..Len(oplog[p])} : p \in Pages}
RECURSIVE FreshFrom(_, _)
FreshFrom(i, n) ==
    IF n = 0 THEN <<>>
    ELSE IF Str(BlockPool[i]) \in UsedBlockIds THEN FreshFrom(i + 1, n)
    ELSE <<BlockPool[i]>> \o FreshFrom(i + 1, n - 1)

\* markdown_to_blocks on a text that holds the given paragraphs
markdown_to_blocks(paragraphs) ==
    LET ids == FreshFrom(1, Len(paragraphs))
    IN  [k \in 1..Len(paragraphs) |-> Block(ids[k], "paragraph", paragraphs[k])]

\* The arguments of the page tools: a markdown text is the paragraphs it holds.
Markdowns == {<<>>, <<"x">>, <<"x", "y">>}
TagArgs == {None, <<"a", ",", " ", "a">>, <<"a", ",", "B">>, <<" ", ",">>}
AddArgs == {None, <<"a", ",", "b">>, <<"A">>}
RemoveArgs == {None, <<"A">>}

\* str(uuid4()): the id of a page that is not there
NewPageId == IF pageFile["p1"] = Absent THEN "p1" ELSE "p2"

\* create_page: the page id is a uuid4(), so no file of that name is there
ToolCreatePage ==
    /\ ToolIdle
    /\ \E p \in Pages, text \in Markdowns, tags \in TagArgs :
          /\ p = NewPageId
          /\ pageFile[p] = Absent
          /\ LET tag_list == IF tags # None /\ tags # <<>> THEN TagList(tags) ELSE <<>>
                 blocks == IF text # <<>> THEN markdown_to_blocks(text) ELSE <<>>
                 content == NewContent(Now, blocks)
             IN  CreatePageDone(p, NewPage(p, Str(TxtMisc), content,
                                           TagsValue(tag_list), Now), content)
    /\ ToolEnds("returned")
    /\ UNCHANGED toolVars

\* update_page with content and tags, or with one of them
ToolUpdatePage ==
    /\ ToolIdle
    /\ \E p \in Pages, text \in {None, <<>>, <<"x">>}, tags \in TagArgs :
          /\ Resolves(p)
          /\ UpdatePageDone(p,
                [content |-> IF text # None
                             THEN NewContent(Now, markdown_to_blocks(text)) ELSE None,
                 title |-> None,
                 tags |-> IF tags # None THEN TagsValue(TagList(tags)) ELSE None,
                 extra |-> None, now |-> Now])
    /\ ToolEnds("returned")
    /\ UNCHANGED toolVars

\* append_to_page, had it written the new blocks alone
AppendReplaces ==
    /\ ToolIdle
    /\ \E p \in Pages, text \in Markdowns :
          /\ Resolves(p)
          /\ markdown_to_blocks(text) # <<>>
          /\ UpdatePageDone(p,
                [NoFields EXCEPT !.content = NewContent(Now, markdown_to_blocks(text)),
                                 !.now = Now])
    /\ ToolEnds("returned")
    /\ UNCHANGED toolVars

\* append_to_page with a text that holds blocks
AppendToPage ==
    /\ ToolIdle
    /\ \E p \in Pages, text \in Markdowns :
          /\ Resolves(p)
          /\ markdown_to_blocks(text) # <<>>
          /\ LET existing_content ==
                     GetOr(pageFile[p][2], "content", NewContent(None, <<>>))
                 existing_blocks == BlocksOf(existing_content)
             IN  UpdatePageDone(p,
                    [NoFields EXCEPT
                        !.content = NewContent(Now, existing_blocks
                                                    \o markdown_to_blocks(text)),
                        !.now = Now])
    /\ ToolEnds("returned")
    /\ UNCHANGED toolVars

\* append_to_page with a text that holds no block: the early return
AppendNothing ==
    /\ ToolIdle
    /\ \E p \in Pages, text \in Markdowns :
          /\ Resolves(p)
          /\ markdown_to_blocks(text) = <<>>
    /\ ToolWritesNothing("returned")

\* manage_tags
ManageTags ==
    /\ ToolIdle
    /\ \E p \in Pages, add \in AddArgs, remove \in RemoveArgs :
          /\ Resolves(p)
          /\ UpdatePageDone(p,
                [NoFields EXCEPT
                    !.tags = TagsValue(ManagedTags(TagsOf(pageFile[p][2]), add, remove)),
                    !.now = Now])
    /\ ToolEnds("returned")
    /\ UNCHANGED toolVars

\* a page tool given a page that resolve_page does not find
PageToolNotFound ==
    /\ ToolIdle
    /\ \E p \in Pages : ~Resolves(p)
    /\ ToolWritesNothing("ValueError")

InitTools ==
    /\ InitStore
    /\ fnIn = [f |-> "tools"]
    /\ fnOut = NotRun

NextPageTools ==
    \/ ToolCreatePage
    \/ ToolUpdatePage
    \/ AppendToPage
    \/ AppendNothing
    \/ ManageTags
    \/ PageToolNotFound

SpecPageTools == InitTools /\ [][NextPageTools]_vars

NextDatabase ==
    \/ ToolCreatePage
    \/ CreateDatabase
    \/ CreateDatabaseInvalid
    \/ AddDatabaseRows
    \/ UpdateDatabaseRows
    \/ DatabaseToolRefused
    \/ DatabaseRowsInvalid
    \/ GetDatabase

SpecDatabase == InitTools /\ [][NextDatabase]_vars

(***************************************************************************)
(* Folders: folders.json and the create_folder tool.                       *)
(***************************************************************************)
\* The ids uuid4() may draw for a folder; an id drawn is one not in use.
FolderIds == <<"f1", "f2", "f3", "f4", "f5", "f6", "f7">>

\* a folder of folders.json (sectionId, isArchived and folderType left out)
Folder(id, name, parent_id, position) ==
    Dict(<< <<"id", Str(id)>>, <<"name", Str(name)>>, <<"parentId", parent_id>>,
            <<"position", Num(position)>> >>)

\* json.loads(path.read_text()) if path.exists() else [], [] when it raises
FoldersIn(file) == IF IsDoc(file) THEN file[2] ELSE <<>>

\* NousStorage.list_folders(notebook_id, include_archived=True)
list_folders(file) == FoldersIn(file)

\* A folder named by its UUID or by its name.
ById(id) == [uuid |-> TRUE, id |-> id, name |-> <<>>]
ByName(name) == [uuid |-> FALSE, id |-> "", name |-> name]

\* resolve_folder, had it taken a UUID for the id of a folder without looking
ResolveFolderUnchecked(file, name_or_id) ==
    IF name_or_id.uuid
    THEN Returned(Folder(name_or_id.id, <<>>, None, 0))
    ELSE _resolve_name(name_or_id.name, list_folders(file), "name")

\* NousStorage.resolve_folder
resolve_folder(file, name_or_id) ==
    IF name_or_id.uuid
    THEN LET at == {i \in 1..Len(list_folders(file)) :
                       Lookup(list_folders(file)[i], "id") = Str(name_or_id.id)}
         IN  IF at # {}
             THEN Returned(list_folders(file)[CHOOSE i \in at : \A j \in at : i <= j])
             ELSE ValueError("Folder not found", <<>>)
    ELSE _resolve_name(name_or_id.name, list_folders(file), "name")

\* max((f.get("position", 0) for f in folders if f.get("parentId") == parent_id),
\*     default=-1)
MaxPosition(folders_list, parent_id) ==
    LET at == {i \in 1..Len(folders_list) : Get(folders_list[i], "parentId") = parent_id}
        pos(i) == Items(GetOr(folders_list[i], "position", Num(0)))
    IN  IF at = {} THEN -1 ELSE pos(CHOOSE i \in at : \A j \in at : pos(j) <= pos(i))

\* str(uuid4()): the first id of the pool that no folder of the file has
FreshFolderId(folders_list) ==
    FolderIds[CHOOSE i \in 1..Len(FolderIds) :
                 /\ \A k \in 1..Len(folders_list) :
                       Lookup(folders_list[k], "id") # Str(FolderIds[i])
                 /\ \A j \in 1..(i - 1) :
                       \E k \in 1..Len(folders_list) :
                          Lookup(folders_list[k], "id") = Str(FolderIds[j])]

\* NousStorage.create_folder: the file it leaves
create_folder(file, name, parent_id) ==
    LET folders_list == FoldersIn(file)
    IN  Doc(Append(folders_list,
                   Folder(FreshFolderId(folders_list), name, parent_id,
                          MaxPosition(folders_list, parent_id) + 1)))

\* The arguments of the tool: the name, and the parent (None, a UUID or a name).
FolderNames == {TxtWork, TxtWorkLower, TxtHome}
ParentArgs == <<ById("f1"), ById("f2"), ById("f5"), ByName(TxtWork), ByName(<<"w", "o">>),
                ByName(TxtHome)>>

\* the create_folder tool without a parent
CreateRootFolder ==
    /\ ToolIdle
    /\ \E name \in FolderNames : folders' = create_folder(folders, name, None)
    /\ ToolEnds("returned")
    /\ UNCHANGED <<pageFile, oplog, dbFile>>

\* the create_folder tool with a parent that resolve_folder finds
CreateFolder ==
    /\ ToolIdle
    /\ \E name \in FolderNames, i \in 1..Len(ParentArgs) :
          LET p == resolve_folder(folders, ParentArgs[i])
          IN  /\ p.raised = "none"
              /\ folders' = create_folder(folders, name, Lookup(p.item, "id"))
    /\ ToolEnds("returned")
    /\ UNCHANGED <<pageFile, oplog, dbFile>>

\* the create_folder tool with a parent that resolve_folder does not find
CreateFolderNotFound ==
    /\ ToolIdle
    /\ \E i \in 1..Len(ParentArgs) : resolve_folder(folders, ParentArgs[i]).raised # "none"
    /\ ToolWritesNothing("ValueError")

\* folders.json at the start: missing, unreadable, or an acyclic tree
FolderFiles ==
    {Absent, Partial,
     Doc(<<Folder("f1", TxtWork, None, 0)>>),
     Doc(<<Folder("f1", TxtWork, None, 0), Folder("f2", TxtWork, Str("f1"), 0)>>),
     Doc(<<Folder("f2", TxtHome, Str("f1"), 0), Folder("f1", TxtWorkLower, None, 0)>>)}

InitFolders ==
    /\ InitFiles
    /\ folders \in FolderFiles
    /\ fnIn = [f |-> "tools"]
    /\ fnOut = NotRun

NextFolders ==
    \/ CreateRootFolder
    \/ CreateFolder
    \/ CreateFolderNotFound

SpecFolders == InitFolders /\ [][NextFolders]_vars

(***************************************************************************)
(* Properties of the oplog over whole calls of one writer.                 *)
(***************************************************************************)
\* every call made so far ran to its end and appended its entry
CallsCompleted ==
    /\ Idle(One)
    /\ Len(oplog["p1"]) + Len(oplog["p2"]) = calls

\* C28: for every page, after any sequence of create_page calls (with a
\* caller-supplied page_id too) and update_page calls, the oplog holds exactly
\* one entry with op "create", that entry is entry[0], and entry[0] is the
\* only entry whose prevHash is "genesis".
C28_OneCreateEntry ==
    CallsCompleted =>
        \A p \in Pages :
            oplog[p] # <<>> =>
                /\ {i \in 1..Len(oplog[p]) : oplog[p][i].op = Str("create")} = {1}
                /\ {i \in 1..Len(oplog[p]) : oplog[p][i].prevHash = Genesis} = {1}

\* the block ids after the changes of one entry, from change k on
RECURSIVE AppliedFrom(_, _, _)
AppliedFrom(ids, changes, k) ==
    IF k > Len(changes) THEN ids
    ELSE AppliedFrom(IF changes[k].op = OpInsert THEN ids \cup {changes[k].blockId}
                     ELSE IF changes[k].op = OpDelete THEN ids \ {changes[k].blockId}
                     ELSE ids,
                     changes, k + 1)

\* the block ids after the entries of an oplog, from entry i on
RECURSIVE ReplayedFrom(_, _, _)
ReplayedFrom(ids, entries, i) ==
    IF i > Len(entries) THEN ids
    ELSE ReplayedFrom(AppliedFrom(ids, entries[i].blockChanges, 1), entries, i + 1)

\* the ids of the blocks of a page file's content
BlockIdSetOf(file) ==
    {Lookup(BlocksOf(Lookup(file[2], "content"))[k], "id") :
        k \in 1..Len(BlocksOf(Lookup(file[2], "content")))}

\* C29: for a page written only through completed create_page / update_page
\* calls of one writer, with unique block ids in each content, applying in
\* oplog order every insert and delete change to the empty set yields the set
\* of block ids of the page file's current content, and the last entry's
\* blockCount is the number of blocks of that content.
C29_ReplayYieldsBlocks ==
    CallsCompleted =>
        \A p \in Pages :
            (IsDoc(pageFile[p]) /\ oplog[p] # <<>>) =>
                /\ ReplayedFrom({}, oplog[p], 1) = BlockIdSetOf(pageFile[p])
                /\ oplog[p][Len(oplog[p])].blockCount
                       = Len(BlocksOf(Lookup(pageFile[p][2], "content")))

(***************************************************************************)
(* Properties of the page tools.                                           *)
(***************************************************************************)
\* C26: after any sequence of create_page, update_page and manage_tags tool
\* calls, with any comma-separated tag arguments, the tags list stored in the
\* page file contains no tag twice.
C26_TagsFormASet ==
    \A p \in Pages :
        IsDoc(pageFile[p]) =>
            \A i, j \in 1..Len(TagsOf(pageFile[p][2])) :
                TagsOf(pageFile[p][2])[i] = TagsOf(pageFile[p][2])[j] => i = j

\* the blocks of a page file, none for a file that is no page
FileBlocks(file) == IF IsDoc(file) THEN BlocksOf(Lookup(file[2], "content")) ELSE <<>>

\* what an append of k >= 1 blocks leaves of page p: the old blocks, then the
\* k new ones; one more entry, a "modify" with the k inserts of the new blocks
AppendedTo(p) ==
    LET old == FileBlocks(pageFile[p])
        new == FileBlocks(pageFile'[p])
        k == Len(new) - Len(old)
        entry == oplog'[p][Len(oplog'[p])]
    IN  /\ k >= 1
        /\ SubSeq(new, 1, Len(old)) = old
        /\ \A j \in 1..k : \A i \in 1..Len(old) :
              Lookup(new[Len(old) + j], "id") # Lookup(old[i], "id")
        /\ Len(oplog'[p]) = Len(oplog[p]) + 1
        /\ SubSeq(oplog'[p], 1, Len(oplog[p])) = oplog[p]
        /\ entry.op = Str("modify")
        /\ Len(entry.blockChanges) = k
        /\ \A j \in 1..k :
              /\ entry.blockChanges[j].op = OpInsert
              /\ entry.blockChanges[j].blockId = Lookup(new[Len(old) + j], "id")

\* C30: append_to_page with markdown that yields k >= 1 blocks keeps the
\* page's blocks, unchanged and in order, as a prefix of the new block
\* sequence, adds the k new blocks after them, and appends one "modify" entry
\* whose blockChanges are exactly k inserts; with markdown that yields no
\* block it changes neither the page file nor the oplog.
C30_AppendKeepsPrefix ==
    [][/\ AppendToPage =>
             \E p \in Pages :
                /\ AppendedTo(p)
                /\ \A q \in Pages \ {p} : pageFile'[q] = pageFile[q] /\ oplog'[q] = oplog[q]
       /\ AppendNothing => UNCHANGED <<pageFile, oplog>>]_vars

\* two blocks were appended to a page that held blocks
C30_Witness ==
    /\ outcome[One] = "returned"
    /\ \E p \in Pages :
          /\ IsDoc(pageFile[p])
          /\ Len(oplog[p]) >= 2
          /\ LET entry == oplog[p][Len(oplog[p])]
             IN  /\ entry.op = Str("modify")
                 /\ Len(entry.blockChanges) = 2
                 /\ \A j \in 1..2 : entry.blockChanges[j].op = OpInsert
                 /\ Len(FileBlocks(pageFile[p])) > 2

(***************************************************************************)
(* Properties of the folders.                                              *)
(***************************************************************************)
\* the ids of the folders of a list, and the parentId of the folder of an id
IdsOfFolders(folders_list) ==
    {Lookup(folders_list[k], "id") : k \in 1..Len(folders_list)}
ParentOf(folders_list, id) ==
    Get(folders_list[CHOOSE k \in 1..Len(folders_list) :
                        Lookup(folders_list[k], "id") = id], "parentId")

\* following parentId from id for at most n steps ends: at a root, or at an id
\* that is no folder of the list
RECURSIVE Climbs(_, _, _)
Climbs(folders_list, id, n) ==
    IF id = None \/ id \notin IdsOfFolders(folders_list) THEN TRUE
    ELSE IF n = 0 THEN FALSE
    ELSE Climbs(folders_list, ParentOf(folders_list, id), n - 1)

Acyclic(folders_list) ==
    \A k \in 1..Len(folders_list) :
        Climbs(folders_list, Lookup(folders_list[k], "id"), Len(folders_list))
ParentsPresent(folders_list) ==
    \A k \in 1..Len(folders_list) :
        Get(folders_list[k], "parentId") \in IdsOfFolders(folders_list) \cup {None}

\* C25: starting from an acyclic folders.json, after any sequence of
\* create_folder tool calls the parentId relation has no cycle and every
\* non-null parentId is the id of a folder of the same folders.json.
C25_FolderTreeAcyclic ==
    IsDoc(folders) => Acyclic(folders[2]) /\ ParentsPresent(folders[2])

\* three folders were created, one of them two levels below a root
C25_Witness ==
    /\ IsDoc(folders)
    /\ calls = MaxCalls
    /\ outcome[One] = "returned"
    /\ \E k \in 1..Len(folders[2]) :
          /\ Get(folders[2][k], "parentId") # None
          /\ ParentOf(folders[2], Get(folders[2][k], "parentId")) # None

(***************************************************************************)
(* Properties of the databases.                                            *)
(***************************************************************************)
\* the ids of a property's options
OptionIds(prop) == {OptionsOf(prop)[k].id : k \in 1..Len(OptionsOf(prop))}

\* the cell a row stores for a property is made of ids of the property's options
CellResolved(prop, cells) ==
    prop.id \in DOMAIN cells =>
        LET v == cells[prop.id]
        IN  CASE prop.type = "select" -> Kind(v) = "uuid" /\ v \in OptionIds(prop)
              [] prop.type = "multiSelect" ->
                    /\ Kind(v) = "list"
                    /\ \A k \in 1..Len(Items(v)) :
                          Kind(Items(v)[k]) = "uuid" /\ Items(v)[k] \in OptionIds(prop)
              [] OTHER -> TRUE

\* C23: after any sequence of create_database, add_database_rows and
\* update_database_rows calls, every cell stored for a select property is the
\* id of an option of that property in the same .database file, and every
\* element of a cell stored for a multiSelect property is such an id.
C23_CellsAreOptionIds ==
    \A p \in Pages :
        IsDoc(dbFile[p]) =>
            \A i \in 1..Len(dbFile[p][2].properties), j \in 1..Len(dbFile[p][2].rows) :
                CellResolved(dbFile[p][2].properties[i], dbFile[p][2].rows[j].cells)

\* a tool call ends in the error of an invalid input
InvalidInput ==
    /\ calls' = calls + 1
    /\ outcome'[One] \in {"ValueError", "JSONDecodeError"}

\* C24: a database operation that fails with invalid input (get_database,
\* add_database_rows or update_database_rows on a page whose pageType is not
\* "database"; create_database, add_database_rows or update_database_rows
\* given a malformed JSON argument) raises and leaves every page file,
\* .database file and oplog unchanged.
C24_InvalidInputWritesNothing ==
    [][InvalidInput => UNCHANGED <<pageFile, dbFile, oplog>>]_vars

\* a call was refused while a database with rows and a plain page were there
C24_Witness ==
    /\ outcome[One] \in {"ValueError", "JSONDecodeError"}
    /\ \E p \in Pages : IsDoc(dbFile[p]) /\ Len(dbFile[p][2].rows) > 0
    /\ calls = MaxCalls

(***************************************************************************)
(* Properties of the scans over corrupt files.                             *)
(***************************************************************************)
\* A file the scans are to skip: one that does not parse, or a page without id.
Corrupt(file) == ~IsDoc(file) \/ ~HasKey(file[2], "id")
RECURSIVE WithoutCorrupt(_, _)
WithoutCorrupt(files, i) ==
    IF i > Len(files) THEN <<>>
    ELSE (IF Corrupt(files[i]) THEN <<>> ELSE <<files[i]>>) \o WithoutCorrupt(files, i + 1)

ScanDone ==
    fnIn.f \in {"list_pages", "page_storage_list_pages", "search_pages"} /\ fnOut.done

\* C21: list_pages and search_pages return normally whatever files the
\* directory holds, and their result is the result of the same call on the
\* directory without the files that do not parse or hold a page without id.
C21_CorruptFilesSkipped ==
    ScanDone =>
        /\ fnOut.val.raised = "none"
        /\ fnOut.val =
              CASE fnIn.f = "list_pages" ->
                       list_pages(WithoutCorrupt(GlobOf(fnIn.dir, fnIn.order), 1),
                                  fnIn.folder_id, fnIn.section_id, fnIn.tag, fnIn.limit)
                [] fnIn.f = "page_storage_list_pages" ->
                       page_storage_list_pages(WithoutCorrupt(fnIn.dir, 1))
                [] fnIn.f = "search_pages" ->
                       search_pages(WithoutCorrupt(GlobOf(fnIn.dir, fnIn.order), 1),
                                    fnIn.query, fnIn.limit)

====
